---- MODULE Spec2Model ----
(***************************************************************************)
(* Alarm broadcast network core of the hospital alarm system.              *)
(*                                                                         *)
(* Spec        : the server (src/alarm_server_gui.py).  The Tk main thread *)
(*               runs start_server, stop_server and broadcast_alarm one at *)
(*               a time; the accept loop (handle_clients) and one          *)
(*               heartbeat thread per session (handle_client) interleave   *)
(*               with it at every access to shared state.                  *)
(* SpecClient  : the client session manager (src/client/alarm_client.py):  *)
(*               scheduled checks, connect threads and the read loop.      *)
(***************************************************************************)
EXTENDS Integers, Sequences, FiniteSets, TLC

(* ------------------------------ bounds --------------------------------- *)
MaxSessions == 2
MaxAcceptors == 2
MaxProbes == 2
MaxThreads == 2
MaxStream == 2
MaxAlarms == 1
MaxPwLen == 2
MaxStoredLen == 3
SaltLen == 1

Sessions == 1..MaxSessions
Threads == 1..MaxThreads
SockIds == 1..(MaxThreads + 1)
Tokens == {"ping", "alarm", "junk", "bad8"}

(* ------------------------------ helpers -------------------------------- *)
Range(q) == {q[k] : k \in 1..Len(q)}

\* x in list
Contains(q, x) == \E k \in 1..Len(q) : q[k] = x

IndexOf(q, x) == CHOOSE k \in 1..Len(q) : q[k] = x /\ \A j \in 1..(k-1) : q[j] # x

\* list.remove(x) on a list that holds x: drops the first occurrence
ListRemove(q, x) ==
    LET k == IndexOf(q, x)
    IN  SubSeq(q, 1, k-1) \o SubSeq(q, k+1, Len(q))

VARIABLES
    running,    \* self.running
    lsock,      \* self.socket: "none", "open" (listening) or "closed"
    clients,    \* self.clients, a list of session sockets
    sock,       \* per session socket: "unborn", "open", "peerClosed", "reset", "closed"
    hpc,        \* per session heartbeat thread (handle_client) position
    nacc,       \* number of accept-loop threads (handle_clients) at the top of their loop
    pending,    \* client_socket of each accept-loop thread between accept() and append()
    mpc,        \* position of the Tk main thread
    bi,         \* index of the list iterator of the running for-loop
    cur,        \* loop variable `client`
    failed,     \* disconnected_clients
    sent,       \* sent_count
    ci,         \* index into disconnected_clients in the cleanup loop
    bstart,     \* history: registry contents when the broadcast passed its guards
    written,    \* history: sessions the current broadcast called send() on
    quiet,      \* history: no other thread changed the registry during the broadcast
    hfailed,    \* history: per session, the heartbeat send raised and the thread has
                \* not yet closed the socket
    probes      \* history: per session, heartbeat sends completed since the peer went
                \* away, until the thread has closed the socket

VARIABLES
    crun,       \* client: self.running
    csock,      \* client: self.socket, 0 for None, else a socket object
    sk,         \* per socket object: "free", "fresh", "connected", "eof" or "closed"
    stream,     \* per socket object: what the peer has written and recv has not returned yet
    tpc,        \* per client thread: position in connect_to_server / listen_for_alarms
    tsk,        \* per client thread: the socket object the blocking call was made on
    srvUp,      \* a server is listening at (server_host, server_port)
    initDue,    \* the root.after(1000, attempt_connection) callback has not run yet
    nalarm,     \* history: alarms the server has written
    delivered,  \* alarms handed to the consumer (handle_alarm scheduled)
    lost,       \* history: recv returned an alarm that was not handed to the consumer
    upChecked,  \* history: a periodic check has run since the server came up
    connSinceUp \* history: the client has been Connected since the server came up

cvars == <<crun, csock, sk, stream, tpc, tsk, srvUp, initDue, nalarm, delivered, lost,
           upChecked, connSinceUp>>

svars == <<running, lsock, clients, sock, hpc, nacc, pending, mpc, bi, cur, failed,
           sent, ci, bstart, written, quiet, hfailed, probes>>

svars_but_nacc == <<running, lsock, clients, sock, hpc, pending, mpc, bi, cur, failed,
                    sent, ci, bstart, written, quiet, hfailed, probes>>

VARIABLES
    qpc         \* client: "live", or where the explicit shutdown stands: "d_close"
                \* (disconnect has set self.running = False), "down" (disconnect has
                \* returned), "gone" (root.destroy() has run: no Tk callback runs any more)

VARIABLES
    peer        \* per session: the client socket object at the other end of the
                \* connection, 0 when the peer is not this client

VARIABLES
    vstored,    \* credential functions: the stored value given to verify_password,
                \* a string (text) or a value that is no string
    vhashed,    \* history: the password hash_password made vstored from, if it did
    vcand,      \* the password given to verify_password
    vres        \* what verify_password returned: "none" before the call, "True",
                \* "False", or "raise" for an exception leaving it

hvars == <<vstored, vhashed, vcand, vres>>

VARIABLES
    ocolor,     \* colour functions: the colour the operator chose, a string
    obg,        \* bg_color of broadcast_alarm, << >> before it is computed
    otext       \* text_color of broadcast_alarm, << >> before it is computed

ovars == <<ocolor, obg, otext>>

VARIABLES
    pdue,       \* client: the root.after job of periodic_reconnection_check is pending
    rseen       \* history: what the read loop has been through: "timeout" (a recv
                \* timed out), "ping" (a recv returned the heartbeat sentinel alone)

lvars == <<pdue, rseen>>

VARIABLES
    wsent,      \* wire: the alarm_data of the alarms written, in order
    wire,       \* wire: the byte sequences written to the connection and not yet
                \* returned by recv, one per send
    wgot,       \* wire: the objects handed to handle_alarm, in order
    wbad,       \* wire: the number of reads logged as "Received invalid data"
    wdisc,      \* wire: the number of reads discarded as a heartbeat
    wnping      \* wire: the number of heartbeat probes written

wvars == <<wsent, wire, wgot, wbad, wdisc, wnping>>

VARIABLES
    admin_name_entry,   \* the text of the admin name entry, a string
    admin_pass_entry,   \* the text of the password entry
    dialog              \* the Change Admin Password dialog: whether it is open, and
                        \* the texts of its three entries

dvars == <<admin_name_entry, admin_pass_entry, dialog>>

\* the variables the server's and most of the client's steps do not touch
pvars == <<hvars, ovars, lvars, wvars, dvars>>

VARIABLES
    pwfile,         \* the credential file self.password_file: does it exist, its text
    admin_password, \* self.admin_password: set by load_admin_password, its text
    built           \* AlarmServerGUI.__init__: "new", "loaded" (load_admin_password has
                    \* returned), "ready" (constructed) or "failed" (an exception or
                    \* sys.exit left the constructor)

kvars == <<pwfile, admin_password, built>>

VARIABLES
    is_authenticated,   \* self.is_authenticated
    current_admin       \* self.current_admin, "None" for None

avars == <<is_authenticated, current_admin>>

VARIABLES
    msg,        \* broadcast_alarm: message_json, << >> outside a broadcast
    outs,       \* history: the byte sequences the current broadcast passed to send()
    nser        \* history: json.dumps calls of the current broadcast

bvars == <<msg, outs, nser>>

VARIABLES
    nexc,       \* accept-loop threads in the except clause of handle_clients
    acchist     \* history of the accept loop since the last stop_server: "none",
                \* "failed" (an accept raised), "recovered" (an accept returned a
                \* connection after one had raised)

tvars == <<nexc, acchist>>

\* the state outside the session cores that the session actions leave alone
gvars == <<pvars, kvars, avars, bvars, tvars>>

\* the state added to the two cores
xvars == <<qpc, peer, gvars>>

vars == <<svars, cvars, xvars>>

(* =================== credential functions =============================== *)
\* the characters of the model's strings: two hex digits, the colon, and the
\* hex digits "c" and "e" that only digests hold
PwChars == {"0", ":"}
SaltChars == {"0", "1"}
StoredChars == {"0", ":"}

\* all strings over `chars` of length up to n
StrUpTo(chars, n) == UNION {[1..m -> chars] : m \in 0..n}

Passwords == StrUpTo(PwChars, MaxPwLen)

\* secrets.token_hex(16): a string of hex digits of fixed length
Salts == [1..SaltLen -> SaltChars]

\* the hex digit a character of the message contributes
HexOf(c) == IF c = ":" THEN "c" ELSE c

\* mutant of Sha256Hex: all messages have the same digest
Sha256Hex_Collide(m) == <<"e">>

\* hashlib.sha256(m.encode()).hexdigest(): a nonempty string of hex digits,
\* different for different messages
Sha256Hex(m) == <<"e">> \o [i \in 1..Len(m) |-> HexOf(m[i])]

\* hash_password with the salt secrets.token_hex drew: f"{salt}:{password_hash}"
HashPassword(password, salt) == salt \o <<":">> \o Sha256Hex(password \o salt)

\* str.split(':'): the parts between the colons, one more than there are colons
RECURSIVE SplitColon(_)
SplitColon(s) ==
    IF \A i \in 1..Len(s) : s[i] # ":"
        THEN <<s>>
        ELSE LET i == CHOOSE j \in 1..Len(s) : s[j] = ":" /\ \A h \in 1..(j-1) : s[h] # ":"
             IN  <<SubSeq(s, 1, i-1)>> \o SplitColon(SubSeq(s, i+1, Len(s)))

\* the body of the try block of verify_password: stored_hash.split(':') on a
\* value that is no string raises AttributeError, unpacking anything but two
\* parts raises ValueError
VerifyBody(password, stored) ==
    IF ~stored.str THEN "raise"
    ELSE LET parts == SplitColon(stored.text)
         IN  IF Len(parts) # 2 THEN "raise"
             ELSE IF Sha256Hex(password \o parts[1]) = parts[2] THEN "True" ELSE "False"

\* mutant of VerifyPassword: no except clause
VerifyPassword_NoCatch(password, stored) == VerifyBody(password, stored)

\* verify_password: try: ... except: return False
VerifyPassword(password, stored) ==
    IF VerifyBody(password, stored) = "raise" THEN "False" ELSE VerifyBody(password, stored)

\* the stored values handed to verify_password directly: every short string,
\* and None
StoredInputs ==
    {[str |-> TRUE, text |-> s] : s \in StrUpTo(StoredChars, MaxStoredLen)}
        \cup {[str |-> FALSE, text |-> << >>]}

(* ------------------------- colour functions ---------------------------- *)
HexLower == <<"0", "1", "2", "3", "4", "5", "6", "7", "8", "9", "a", "b", "c", "d", "e", "f">>

HexUpper == <<"0", "1", "2", "3", "4", "5", "6", "7", "8", "9", "A", "B", "C", "D", "E", "F">>

IsHexDigit(ch) == \E v \in 1..16 : HexLower[v] = ch \/ HexUpper[v] = ch

HexVal(ch) == (CHOOSE v \in 1..16 : HexLower[v] = ch \/ HexUpper[v] = ch) - 1

\* hex_color.lstrip('#'): the string without its leading '#' characters
LStripHash(s) ==
    IF \A i \in 1..Len(s) : s[i] = "#"
        THEN << >>
        ELSE SubSeq(s, CHOOSE i \in 1..Len(s) : s[i] # "#" /\ \A j \in 1..(i-1) : s[j] = "#",
                    Len(s))

\* the slice s[a:b] of a string
Slice(s, a, b) == SubSeq(s, a + 1, IF b < Len(s) THEN b ELSE Len(s))

\* int(t, 16) raises ValueError on the empty string and on a character that
\* is no hex digit
IntRaises(t) == t = << >> \/ \E i \in 1..Len(t) : ~IsHexDigit(t[i])

\* int(t, 16) of one or two hex digits
IntHex(t) == IF Len(t) = 1 THEN HexVal(t[1]) ELSE 16 * HexVal(t[1]) + HexVal(t[2])

\* the try block of darken_color and get_contrast_color raises
ColorRaises(hex_color) ==
    LET h == LStripHash(hex_color)
    IN  IntRaises(Slice(h, 0, 2)) \/ IntRaises(Slice(h, 2, 4)) \/ IntRaises(Slice(h, 4, 6))

\* r, g, b = int(hex_color[0:2], 16), int(hex_color[2:4], 16), int(hex_color[4:6], 16)
Rgb(hex_color) ==
    LET h == LStripHash(hex_color)
    IN  <<IntHex(Slice(h, 0, 2)), IntHex(Slice(h, 2, 4)), IntHex(Slice(h, 4, 6))>>

\* the channel values whose product with the double 1 - 0.3 is rounded to just
\* below the exact value, an integer: 90 * 0.7 is 62.99999999999999
DarkenRoundedDown == {90, 170, 180}

\* max(0, int(c * (1 - factor))) with factor = 0.3, in double arithmetic
DarkenChannel(c) ==
    IF c \in DarkenRoundedDown THEN (7 * c) \div 10 - 1 ELSE (7 * c) \div 10

\* f"{n:02x}"
FormatByte(n) == <<HexLower[(n \div 16) + 1], HexLower[(n % 16) + 1]>>

\* f"#{r:02x}{g:02x}{b:02x}"
HexColor(r, g, b) == <<"#">> \o FormatByte(r) \o FormatByte(g) \o FormatByte(b)

\* darken_color(hex_color, 0.3)
DarkenColor(hex_color) ==
    IF ColorRaises(hex_color)
        THEN <<"#", "2", "F", "4", "F", "4", "F">>
        ELSE LET c == Rgb(hex_color)
             IN  HexColor(DarkenChannel(c[1]), DarkenChannel(c[2]), DarkenChannel(c[3]))

\* the colours with 299 r + 587 g + 114 b = 127500 for which the double
\* (0.299 * r + 0.587 * g + 0.114 * b) / 255 comes out as 0.49999999999999994
LuminanceRoundedDown ==
    {
     <<0, 204, 68>>, <<12, 174, 191>>, <<15, 195, 75>>, <<23, 175, 157>>,
     <<30, 186, 82>>, <<38, 166, 164>>, <<41, 187, 48>>, <<53, 157, 171>>,
     <<56, 178, 55>>, <<64, 158, 137>>, <<71, 169, 62>>, <<79, 149, 144>>,
     <<86, 160, 69>>, <<87, 129, 226>>, <<94, 140, 151>>, <<97, 161, 35>>,
     <<102, 120, 233>>, <<112, 152, 42>>, <<117, 111, 240>>, <<120, 132, 124>>,
     <<127, 143, 49>>, <<132, 102, 247>>, <<135, 123, 131>>, <<138, 144, 15>>,
     <<143, 103, 213>>, <<147, 93, 254>>, <<153, 135, 22>>, <<158, 94, 220>>,
     <<161, 115, 104>>, <<168, 126, 29>>, <<173, 85, 227>>, <<176, 106, 111>>,
     <<188, 76, 234>>, <<194, 118, 2>>, <<198, 108, 43>>, <<199, 77, 200>>,
     <<209, 109, 9>>, <<214, 68, 207>>, <<217, 89, 91>>, <<224, 100, 16>>,
     <<232, 80, 98>>, <<239, 91, 23>>, <<240, 60, 180>>, <<255, 51, 187>>
    }

\* luminance < 0.5 with luminance = (0.299 * r + 0.587 * g + 0.114 * b) / 255
\* in double arithmetic: the rounding error decides only where the exact
\* value is 0.5
LuminanceBelowHalf(c) ==
    \/ 299 * c[1] + 587 * c[2] + 114 * c[3] < 127500
    \/ c \in LuminanceRoundedDown

White == <<"#", "F", "F", "F", "F", "F", "F">>

Black == <<"#", "0", "0", "0", "0", "0", "0">>

\* get_contrast_color(hex_color)
GetContrastColor(hex_color) ==
    IF ColorRaises(hex_color) THEN White
    ELSE IF LuminanceBelowHalf(Rgb(hex_color)) THEN White ELSE Black

\* the channel values the colours of the check are made of
ChannelVals == {0, 68, 170, 204, 255}

\* what the colour chooser and the entry field hand to broadcast_alarm: colours
\* '#rrggbb', the same in capitals, and a string that is no colour
ColorInputs ==
    {HexColor(r, g, b) : r \in ChannelVals, g \in ChannelVals, b \in ChannelVals}
        \cup {White, <<"#", "x">>}

\* a colour string of six hex digits after the '#'
SixDigitHex(h) == Len(h) = 7 /\ h[1] = "#" /\ \A i \in 2..7 : IsHexDigit(h[i])

(* ----------------------- the bytes on the wire -------------------------- *)
\* the size given to recv
RecvBufSize == 1024

\* the two characters of the default icon, U+26A0 and U+FE0F, neither of which
\* is an ASCII character
NonAscii == "U+26A0"

Selector == "U+FE0F"

\* the four hexadecimal digits json.dumps writes for a character outside ASCII
EscapeDigits(ch) == IF ch = NonAscii THEN <<"2", "6", "a", "0">> ELSE <<"f", "e", "0", "f">>

\* the icon broadcast_alarm has by default
DefaultIcon == <<NonAscii, Selector>>

\* the first element of a set of positions
MinOf(ps) == CHOOSE i \in ps : \A j \in ps : i <= j

\* mutant of EscChar: the characters are written as they are
EscChar_Raw(ch) == <<ch>>

\* json.dumps of one character of a string (ensure_ascii is on)
EscChar(ch) ==
    IF ch = "\"" THEN <<"\\", "\"">>
    ELSE IF ch \in {NonAscii, Selector} THEN <<"\\", "u">> \o EscapeDigits(ch)
    ELSE <<ch>>

\* json.dumps of the characters of a string
RECURSIVE Escape(_)
Escape(s) ==
    LET ps == {i \in 1..Len(s) : EscChar(s[i]) # <<s[i]>>}
    IN  IF ps = {} THEN s
        ELSE SubSeq(s, 1, MinOf(ps) - 1) \o EscChar(s[MinOf(ps)])
                \o Escape(SubSeq(s, MinOf(ps) + 1, Len(s)))

\* json.dumps of a string
JsonString(s) == <<"\"">> \o Escape(s) \o <<"\"">>

\* json.dumps of the members of an object from the n-th on
RECURSIVE DumpMembers(_, _)
DumpMembers(d, n) ==
    IF n > Len(d) THEN << >>
    ELSE JsonString(d[n][1]) \o <<":", " ">> \o JsonString(d[n][2])
            \o (IF n < Len(d) THEN <<",", " ">> ELSE << >>)
            \o DumpMembers(d, n + 1)

\* json.dumps(alarm_data).encode('utf-8') of an object of strings, given as
\* the sequence of its (key, value) pairs; the text is ASCII
DumpsBytes(d) == <<"{">> \o DumpMembers(d, 1) \o <<"}">>

\* the escape sequence at the head of e is one json.loads knows
EscapeOk(e) ==
    /\ Len(e) >= 2
    /\ \/ e[2] = "\""
       \/ /\ Len(e) >= 6
          /\ e[2] = "u"
          /\ \E ch \in {NonAscii, Selector} : SubSeq(e, 3, 6) = EscapeDigits(ch)

\* the characters json.loads makes of the inside of a string
RECURSIVE Unescape(_)
Unescape(e) ==
    LET ps == {i \in 1..Len(e) : e[i] = "\\"}
    IN  IF ps = {} THEN e
        ELSE LET i == MinOf(ps)
             IN  IF e[i + 1] = "\""
                     THEN SubSeq(e, 1, i - 1) \o <<"\"">> \o Unescape(SubSeq(e, i + 2, Len(e)))
                     ELSE SubSeq(e, 1, i - 1)
                            \o <<CHOOSE ch \in {NonAscii, Selector} :
                                    SubSeq(e, i + 2, i + 5) = EscapeDigits(ch)>>
                            \o Unescape(SubSeq(e, i + 6, Len(e)))

\* every backslash inside the string starts an escape sequence json.loads knows
RECURSIVE EscapesOk(_)
EscapesOk(e) ==
    LET ps == {i \in 1..Len(e) : e[i] = "\\"}
    IN  IF ps = {} THEN TRUE
        ELSE LET i == MinOf(ps)
             IN  /\ EscapeOk(SubSeq(e, i, Len(e)))
                 /\ EscapesOk(SubSeq(e, (IF e[i + 1] = "\"" THEN i + 2 ELSE i + 6), Len(e)))

\* the positions of the quotes that open or close a string, in their order
Quotes(b) ==
    LET Delimits(j) == b[j] = "\"" /\ (j = 1 \/ b[j - 1] # "\\")
    IN  SelectSeq([j \in 1..Len(b) |-> j], Delimits)

\* the text is one JSON object whose members are strings, written
\* "key": "value" and separated by ", "
IsObjectText(b) ==
    LET qs == Quotes(b)
        k == Len(qs) \div 4
    IN  /\ Len(b) >= 2
        /\ b[1] = "{"
        /\ b[Len(b)] = "}"
        /\ Len(qs) = 4 * k
        /\ k = 0 => Len(b) = 2
        /\ \A m \in 1..k :
            LET q1 == qs[4 * m - 3]
                q2 == qs[4 * m - 2]
                q3 == qs[4 * m - 1]
                q4 == qs[4 * m]
            IN  /\ IF m = 1 THEN q1 = 2
                    ELSE LET q0 == qs[4 * m - 4]
                         IN  q1 = q0 + 3 /\ b[q0 + 1] = "," /\ b[q0 + 2] = " "
                /\ q3 = q2 + 3
                /\ b[q2 + 1] = ":"
                /\ b[q2 + 2] = " "
                /\ m = k => q4 = Len(b) - 1
                /\ EscapesOk(SubSeq(b, q1 + 1, q2 - 1))
                /\ EscapesOk(SubSeq(b, q3 + 1, q4 - 1))

\* the object of a text that is one: the sequence of its (key, value) pairs
ObjectOf(b) ==
    LET qs == Quotes(b)
    IN  [m \in 1..(Len(qs) \div 4) |->
            <<Unescape(SubSeq(b, qs[4 * m - 3] + 1, qs[4 * m - 2] - 1)),
              Unescape(SubSeq(b, qs[4 * m - 1] + 1, qs[4 * m] - 1))>>]

\* json.loads(data.decode('utf-8')): the object, or JSONDecodeError (ok is
\* FALSE) for a text that is no JSON document
LoadsBytes(b) ==
    IF IsObjectText(b) THEN [ok |-> TRUE, obj |-> ObjectOf(b)]
    ELSE [ok |-> FALSE, obj |-> << >>]

\* client_socket.send(b"ping"): the probe the heartbeat thread writes
HbProbe == <<"p", "i", "n", "g">>

\* mutant of PingSentinel: the client compares with another literal
PingSentinel_Upper == <<"P", "I", "N", "G">>

\* if data == b"ping": the sentinel the read loop compares with
PingSentinel == <<"p", "i", "n", "g">>

\* the keys of alarm_data, in the order of the dict
AlarmKeys ==
    <<<<"t", "y", "p", "e">>,
      <<"m", "e", "s", "s", "a", "g", "e">>,
      <<"t", "i", "m", "e", "s", "t", "a", "m", "p">>,
      <<"s", "e", "r", "v", "e", "r">>,
      <<"c", "o", "l", "o", "r">>,
      <<"b", "g", "_", "c", "o", "l", "o", "r">>,
      <<"t", "e", "x", "t", "_", "c", "o", "l", "o", "r">>,
      <<"i", "c", "o", "n">>,
      <<"n", "a", "m", "e">>,
      <<"a", "d", "m", "i", "n">>>>

\* alarm_data of broadcast_alarm, as the sequence of its (key, value) pairs in
\* the order of the dict
AlarmDict(message, stamp, host, color, icon, name, admin) ==
    LET values == <<<<"c", "u", "s", "t", "o", "m">>, message, stamp, host, color, DarkenColor(color),
                    GetContrastColor(color), icon, name, admin>>
    IN  [m \in 1..Len(AlarmKeys) |-> <<AlarmKeys[m], values[m]>>]

\* d[key] of an object that has the key
Field(d, key) == d[CHOOSE m \in 1..Len(d) : d[m][1] = key][2]

\* by how many bytes the longest alarm of the check exceeds the receive buffer
MaxOver == 1

\* the short message of the check: a letter, the quote, which json.dumps
\* escapes, and a character outside ASCII
ShortBodies == {<<"a", "\"", NonAscii>>}

\* the values of the check for what does not depend on the operator's text
WireStamp == <<"t", "1">>

WireHost == <<"h">>

WireName == <<"n">>

WireColors == {HexColor(255, 0, 0)}

WireAdmins == {<<"U", "n", "k", "n", "o", "w", "n">>, <<"a", "l">>}

\* the alarm with the message `message`
WireAlarmOf(message, color, admin) ==
    AlarmDict(message, WireStamp, WireHost, color, DefaultIcon, WireName, admin)

\* the message of letters that makes the serialized alarm `total` bytes long
FillBody(color, admin, total) ==
    [i \in 1..(total - Len(DumpsBytes(WireAlarmOf(<< >>, color, admin)))) |-> "a"]

\* the messages of the check: the short ones, and those that make the alarm
\* as long as the receive buffer and a little longer
WireBodies(color, admin) ==
    ShortBodies \cup {FillBody(color, admin, RecvBufSize + x) : x \in 0..MaxOver}

InitServer ==
    /\ running = FALSE
    /\ lsock = "none"
    /\ clients = << >>
    /\ sock = [s \in Sessions |-> "unborn"]
    /\ hpc = [s \in Sessions |-> "none"]
    /\ nacc = 0
    /\ pending = {}
    /\ mpc = "idle"
    /\ bi = 0
    /\ cur = 0
    /\ failed = << >>
    /\ sent = 0
    /\ ci = 0
    /\ bstart = {}
    /\ written = {}
    /\ quiet = FALSE
    /\ hfailed = [s \in Sessions |-> FALSE]
    /\ probes = [s \in Sessions |-> 0]

InitClient ==
    /\ crun = FALSE
    /\ csock = 0
    /\ sk = [i \in SockIds |-> "free"]
    /\ stream = [i \in SockIds |-> << >>]
    /\ tpc = [k \in Threads |-> "idle"]
    /\ tsk = [k \in Threads |-> 0]
    /\ srvUp = FALSE
    /\ initDue = TRUE
    /\ nalarm = 0
    /\ delivered = 0
    /\ lost = FALSE
    /\ upChecked = FALSE
    /\ connSinceUp = FALSE

(* --------------------------- socket behaviour --------------------------- *)
\* socket.send raises on a connection that was reset by the peer or that this
\* process has closed; the first write after the peer closed is still accepted
SendRaises(st) == st \in {"reset", "closed"}

\* the socket after a send: the write to a peer that has closed draws the reset
SockAfterSend(st) == IF st = "peerClosed" THEN "reset" ELSE st

PeerGone(st) == st \in {"peerClosed", "reset"}

Bump(n) == IF n < MaxProbes THEN n + 1 ELSE n

(* ------------------ accept loop: handle_clients ------------------------- *)
\* the id the next accepted connection gets
NextSession == CHOOSE s \in Sessions : sock[s] = "unborn" /\ \A r \in Sessions : r < s => sock[r] # "unborn"

\* while self.running: client_socket, address = self.socket.accept() returns
\* the connection of peer i (0: a client outside the model)
AcceptFrom(i) ==
    /\ nacc > 0
    /\ running
    /\ lsock = "open"
    /\ \E s \in Sessions : sock[s] = "unborn"
    /\ sock' = [sock EXCEPT ![NextSession] = "open"]
    /\ peer' = [peer EXCEPT ![NextSession] = i]
    /\ pending' = pending \cup {NextSession}
    /\ nacc' = nacc - 1
    /\ acchist' = IF acchist = "failed" /\ nacc + nexc + Cardinality(pending) = 1
                     THEN "recovered" ELSE acchist
    /\ UNCHANGED <<running, lsock, clients, hpc, mpc, bi, cur, failed, sent, ci,
                   bstart, written, quiet, hfailed, probes>>
    /\ UNCHANGED <<cvars, qpc, pvars, kvars, avars, bvars, nexc>>

AcceptConn == AcceptFrom(0)

\* mutant of AfterAcceptError: the exception ends the accept loop
AfterAcceptError_Exit(n) == n

\* the threads at the top of the accept loop once one has left the except
\* clause: the clause is inside the while loop, the thread goes round again
AfterAcceptError(n) == n + 1

\* self.socket.accept() raises: nothing is appended, no thread is started
AcceptFail ==
    /\ nacc > 0
    /\ running
    /\ nacc' = nacc - 1
    /\ nexc' = nexc + 1
    /\ acchist' = "failed"
    /\ UNCHANGED svars_but_nacc
    /\ UNCHANGED <<cvars, qpc, peer, pvars, kvars, avars, bvars>>

\* except Exception as e: if self.running: log; back to `while self.running`
AcceptRetry ==
    /\ nexc > 0
    /\ nexc' = nexc - 1
    /\ nacc' = AfterAcceptError(nacc)
    /\ UNCHANGED svars_but_nacc
    /\ UNCHANGED <<cvars, qpc, peer, pvars, kvars, avars, bvars, acchist>>

\* mutant of RegistryAfterAccept: the session thread is started for a
\* connection that is not put into the registry
RegistryAfterAccept_NotAdded(q, s) == q

\* self.clients.append(client_socket), the statement after accept()
RegistryAfterAccept(q, s) == Append(q, s)

\* self.clients.append(client_socket); client_thread.start()
AcceptRegister(s) ==
    /\ s \in pending
    /\ clients' = RegistryAfterAccept(clients, s)
    /\ hpc' = [hpc EXCEPT ![s] = "wait"]
    /\ pending' = pending \ {s}
    /\ nacc' = nacc + 1
    /\ quiet' = FALSE
    /\ UNCHANGED <<running, lsock, sock, mpc, bi, cur, failed, sent, ci,
                   bstart, written, hfailed, probes>>
    /\ UNCHANGED <<cvars, xvars>>

\* the loop condition `while self.running` is false: the thread ends
AcceptExit ==
    /\ nacc > 0
    /\ ~running
    /\ nacc' = nacc - 1
    /\ UNCHANGED <<running, lsock, clients, sock, hpc, pending, mpc, bi, cur, failed, sent,
                   ci, bstart, written, quiet, hfailed, probes>>
    /\ UNCHANGED <<cvars, xvars>>

(* ------------------ heartbeat thread: handle_client --------------------- *)
\* mutant of HbAfterSend: a failed probe is swallowed and the loop goes on
HbAfterSend_Retry(raised) == "wait"

\* where the thread goes after client_socket.send(b"ping"): back to its
\* sleep, or through the except clause into the finally block
HbAfterSend(raised) == IF raised THEN "fin" ELSE "wait"

\* `while self.running` after time.sleep(30) (or on entry)
HbLoop(s) ==
    /\ hpc[s] = "wait"
    /\ hpc' = [hpc EXCEPT ![s] = IF running THEN "sending" ELSE "fin"]
    /\ UNCHANGED <<running, lsock, clients, sock, nacc, pending, mpc, bi, cur, failed, sent,
                   ci, bstart, written, quiet, hfailed, probes>>
    /\ UNCHANGED <<cvars, xvars>>

\* client_socket.send(b"ping") returns or raises
HbSend(s) ==
    /\ hpc[s] = "sending"
    /\ hpc' = [hpc EXCEPT ![s] = HbAfterSend(SendRaises(sock[s]))]
    /\ hfailed' = [hfailed EXCEPT ![s] = @ \/ SendRaises(sock[s])]
    /\ probes' = [probes EXCEPT ![s] = IF PeerGone(sock[s]) THEN Bump(@) ELSE @]
    /\ sock' = [sock EXCEPT ![s] = SockAfterSend(@)]
    /\ UNCHANGED <<running, lsock, clients, nacc, pending, mpc, bi, cur, failed, sent, ci,
                   bstart, written, quiet>>
    /\ UNCHANGED <<cvars, xvars>>

\* finally: if client_socket in self.clients
HbFinCheck(s) ==
    /\ hpc[s] = "fin"
    /\ hpc' = [hpc EXCEPT ![s] = IF Contains(clients, s) THEN "rm" ELSE "close"]
    /\ UNCHANGED <<running, lsock, clients, sock, nacc, pending, mpc, bi, cur, failed, sent,
                   ci, bstart, written, quiet, hfailed, probes>>
    /\ UNCHANGED <<cvars, xvars>>

\* self.clients.remove(client_socket): ValueError when it is no longer there,
\* which ends the thread before client_socket.close()
HbFinRemove(s) ==
    /\ hpc[s] = "rm"
    /\ IF Contains(clients, s)
          THEN /\ clients' = ListRemove(clients, s)
               /\ hpc' = [hpc EXCEPT ![s] = "close"]
               /\ quiet' = FALSE
          ELSE /\ hpc' = [hpc EXCEPT ![s] = "crashed"]
               /\ UNCHANGED <<clients, quiet>>
    /\ UNCHANGED <<running, lsock, sock, nacc, pending, mpc, bi, cur, failed, sent, ci,
                   bstart, written, hfailed, probes>>
    /\ UNCHANGED <<cvars, xvars>>

\* client_socket.close()
HbFinClose(s) ==
    /\ hpc[s] = "close"
    /\ sock' = [sock EXCEPT ![s] = "closed"]
    /\ hpc' = [hpc EXCEPT ![s] = "done"]
    /\ hfailed' = [hfailed EXCEPT ![s] = FALSE]
    /\ probes' = [probes EXCEPT ![s] = 0]
    /\ UNCHANGED <<running, lsock, clients, nacc, pending, mpc, bi, cur, failed, sent, ci,
                   bstart, written, quiet>>
    /\ UNCHANGED <<cvars, xvars>>

(* ------------------------------ the peer -------------------------------- *)
\* the client process at the other end goes away: the connection is closed
\* (the next write is accepted and answered by a reset) or reset at once
PeerDies(s) ==
    /\ sock[s] = "open"
    /\ \E st \in {"peerClosed", "reset"} : sock' = [sock EXCEPT ![s] = st]
    /\ UNCHANGED <<running, lsock, clients, hpc, nacc, pending, mpc, bi, cur, failed, sent,
                   ci, bstart, written, quiet, hfailed, probes>>
    /\ UNCHANGED <<cvars, xvars>>

(* ------------------ Tk main thread: start_server ------------------------ *)
\* mutant of RunningAfterStart: self.running = True is set before the socket
\* calls that may raise
RunningAfterStart_SetFirst(listening) == TRUE

\* self.running after start_server: the assignment follows socket(), bind()
\* and listen() inside the try block, so it is skipped when one of them raises
RunningAfterStart(listening) == listening

\* toggle_server with the server stopped: bind, listen, self.running = True,
\* start the handle_clients thread
StartServer ==
    /\ built = "ready"
    /\ mpc = "idle"
    /\ ~running
    /\ nacc + nexc + Cardinality(pending) < MaxAcceptors
    /\ lsock' = "open"
    /\ running' = RunningAfterStart(TRUE)
    /\ nacc' = nacc + 1
    /\ UNCHANGED <<clients, sock, hpc, pending, mpc, bi, cur, failed, sent, ci,
                   bstart, written, quiet, hfailed, probes>>
    /\ UNCHANGED <<cvars, xvars>>

\* start_server when socket.socket() raises (self.socket keeps its value) or
\* bind()/listen() raises (self.socket is the new, unbound socket): the except
\* clause logs and shows the error box; no thread is started
StartServerFail(where) ==
    /\ built = "ready"
    /\ mpc = "idle"
    /\ ~running
    /\ lsock' = IF where = "socket" THEN lsock ELSE "unbound"
    /\ running' = RunningAfterStart(FALSE)
    /\ mpc' = "st_failed"
    /\ UNCHANGED <<clients, sock, hpc, nacc, pending, bi, cur, failed, sent, ci,
                   bstart, written, quiet, hfailed, probes>>
    /\ UNCHANGED <<cvars, xvars>>

\* the message box that reports a result is dismissed: the callback returns
DialogReturn ==
    /\ mpc \in {"st_failed", "cp_ok", "cp_failed"}
    /\ mpc' = "idle"
    /\ UNCHANGED <<running, lsock, clients, sock, hpc, nacc, pending, bi, cur, failed, sent,
                   ci, bstart, written, quiet, hfailed, probes>>
    /\ UNCHANGED <<cvars, xvars>>

(* ------------------ Tk main thread: stop_server ------------------------- *)
\* self.running = False; self.socket.close()
StopBegin ==
    /\ mpc = "idle"
    /\ running
    /\ running' = FALSE
    /\ lsock' = "closed"
    /\ mpc' = "s_next"
    /\ bi' = 0
    /\ acchist' = "none"
    /\ UNCHANGED <<clients, sock, hpc, nacc, pending, cur, failed, sent, ci, bstart, written, quiet, hfailed, probes>>
    /\ UNCHANGED <<cvars, qpc, peer, pvars, kvars, avars, bvars, nexc>>

\* for client in self.clients: client.close()   (the iterator reads the live list)
StopNext ==
    /\ mpc = "s_next"
    /\ IF bi < Len(clients)
          THEN /\ sock' = [sock EXCEPT ![clients[bi + 1]] = "closed"]
               /\ bi' = bi + 1
               /\ UNCHANGED mpc
          ELSE /\ mpc' = "s_clear"
               /\ bi' = 0
               /\ UNCHANGED sock
    /\ UNCHANGED <<running, lsock, clients, hpc, nacc, pending, cur, failed, sent, ci, bstart, written, quiet, hfailed, probes>>
    /\ UNCHANGED <<cvars, xvars>>

\* self.clients.clear()
StopClear ==
    /\ mpc = "s_clear"
    /\ clients' = << >>
    /\ mpc' = "idle"
    /\ UNCHANGED <<running, lsock, sock, hpc, nacc, pending, bi, cur, failed, sent, ci, bstart, written, quiet, hfailed, probes>>
    /\ UNCHANGED <<cvars, xvars>>

(* ------------------ Tk main thread: broadcast_alarm --------------------- *)
\* mutant of SentAfter: sent_count is incremented before the send is tried
SentAfter_CountFirst(n, raised) == n + 1

\* sent_count after one send
SentAfter(n, raised) == IF raised THEN n ELSE n + 1

\* mutant of FailedAfter: every session written to is put on the list
FailedAfter_All(f, c, raised) == Append(f, c)

\* disconnected_clients after one send
FailedAfter(f, c, raised) == IF raised THEN Append(f, c) ELSE f

\* the sessions the for-loop of the dispatch is run over: self.clients itself
DispatchList == clients

\* datetime.now().isoformat() at the time alarm_data is built
Stamps == {"t1", "t2"}

\* mutant of AdminField: the operator's name whether authenticated or not
AdminField_Name == current_admin

\* "admin": self.current_admin if self.is_authenticated else "Unknown"
AdminField == IF is_authenticated THEN current_admin ELSE "Unknown"

\* alarm_data: the fields that differ from call to call
AlarmData(st) == [timestamp |-> st, admin |-> AdminField]

\* json.dumps(alarm_data).encode('utf-8'): the fields in insertion order
JsonDumps(d) == << <<"timestamp", d.timestamp>>, <<"admin", d.admin>> >>

\* the value of the "admin" field in a serialized alarm
AdminOf(m) == m[2][2]

\* mutant of PayloadFor: each client gets a serialization of its own
PayloadFor_PerClient(m, c) == << <<"timestamp", "t1">>, <<"admin", AdminOf(m)>>, <<"to", c>> >>

\* the bytes passed to client.send for client c: message_json
PayloadFor(m, c) == m

\* mutant of BroadcastRefused: only the server that is not running refuses
BroadcastRefused_NotRunning == ~running

\* the two guards of broadcast_alarm: `if not self.running` and
\* `if not self.clients`, each followed by a message box and return
BroadcastRefused == ~running \/ clients = << >>

\* broadcast_alarm, called with the main thread at `from`: the two guards,
\* then message_json, disconnected_clients = [], sent_count = 0
BroadcastAlarm(from) ==
    /\ built = "ready"
    /\ mpc = from
    /\ IF BroadcastRefused
          THEN /\ mpc' = "b_refused"
               /\ UNCHANGED <<bi, failed, sent, bstart, written, quiet, bvars>>
          ELSE /\ mpc' = "b_next"
               /\ bi' = 0
               /\ failed' = << >>
               /\ sent' = 0
               /\ bstart' = Range(clients)
               /\ written' = {}
               /\ quiet' = TRUE
               /\ \E st \in Stamps : msg' = JsonDumps(AlarmData(st))
               /\ nser' = 1
               /\ outs' = {}
    /\ UNCHANGED <<running, lsock, clients, sock, hpc, nacc, pending, cur, ci, hfailed,
                   probes>>
    /\ UNCHANGED <<cvars, qpc, peer, pvars, kvars, avars, tvars>>

\* broadcast_alarm called from the event loop
BcastStart == BroadcastAlarm("idle")

\* for client in self.clients: the list iterator takes the element at its index
BcastNext ==
    /\ mpc = "b_next"
    /\ IF bi < Len(DispatchList)
          THEN /\ cur' = DispatchList[bi + 1]
               /\ bi' = bi + 1
               /\ mpc' = "b_send"
               /\ UNCHANGED ci
          ELSE /\ mpc' = "b_chk"
               /\ ci' = 1
               /\ bi' = 0
               /\ cur' = 0
    /\ UNCHANGED <<running, lsock, clients, sock, hpc, nacc, pending, failed, sent, bstart, written, quiet, hfailed, probes>>
    /\ UNCHANGED <<cvars, xvars>>

\* client.send(message_json) returns (sent_count += 1) or raises (collected)
BcastSend ==
    /\ mpc = "b_send"
    /\ sent' = SentAfter(sent, SendRaises(sock[cur]))
    /\ failed' = FailedAfter(failed, cur, SendRaises(sock[cur]))
    /\ sock' = [sock EXCEPT ![cur] = SockAfterSend(@)]
    /\ written' = written \cup {cur}
    /\ outs' = IF SendRaises(sock[cur]) THEN outs ELSE outs \cup {PayloadFor(msg, cur)}
    /\ mpc' = "b_next"
    /\ UNCHANGED <<running, lsock, clients, hpc, nacc, pending, bi, cur, ci, bstart,
                   quiet, hfailed, probes>>
    /\ UNCHANGED <<cvars, qpc, peer, pvars, kvars, avars, tvars, msg, nser>>

\* for client in disconnected_clients: if client in self.clients
BcastChk ==
    /\ mpc = "b_chk"
    /\ IF ci > Len(failed)
          THEN /\ mpc' = "b_end"
               /\ UNCHANGED ci
          ELSE IF Contains(clients, failed[ci])
          THEN /\ mpc' = "b_rm"
               /\ UNCHANGED ci
          ELSE /\ ci' = ci + 1
               /\ UNCHANGED mpc
    /\ UNCHANGED <<running, lsock, clients, sock, hpc, nacc, pending, bi, cur, failed, sent,
                   bstart, written, quiet, hfailed, probes>>
    /\ UNCHANGED <<cvars, xvars>>

\* self.clients.remove(client): ValueError when a heartbeat thread removed it
\* since the membership test; the exception leaves broadcast_alarm
BcastRm ==
    /\ mpc = "b_rm"
    /\ IF Contains(clients, failed[ci])
          THEN /\ clients' = ListRemove(clients, failed[ci])
               /\ mpc' = "b_close"
               /\ UNCHANGED <<failed, sent, ci, bstart, written, quiet, bvars>>
          ELSE /\ mpc' = "b_raised"
               /\ failed' = << >>
               /\ sent' = 0
               /\ ci' = 0
               /\ bstart' = {}
               /\ written' = {}
               /\ quiet' = FALSE
               /\ msg' = << >>
               /\ outs' = {}
               /\ nser' = 0
               /\ UNCHANGED clients
    /\ UNCHANGED <<running, lsock, sock, hpc, nacc, pending, bi, cur, hfailed, probes>>
    /\ UNCHANGED <<cvars, qpc, peer, pvars, kvars, avars, tvars>>

\* client.close()
BcastClose ==
    /\ mpc = "b_close"
    /\ sock' = [sock EXCEPT ![failed[ci]] = "closed"]
    /\ ci' = ci + 1
    /\ mpc' = "b_chk"
    /\ UNCHANGED <<running, lsock, clients, hpc, nacc, pending, bi, cur, failed, sent, bstart, written, quiet, hfailed, probes>>
    /\ UNCHANGED <<cvars, xvars>>

\* update_clients_list, log "Alarm sent to {sent_count} clients", return
BcastEnd ==
    /\ mpc = "b_end"
    /\ mpc' = "idle"
    /\ failed' = << >>
    /\ sent' = 0
    /\ ci' = 0
    /\ bstart' = {}
    /\ written' = {}
    /\ quiet' = FALSE
    /\ msg' = << >>
    /\ outs' = {}
    /\ nser' = 0
    /\ UNCHANGED <<running, lsock, clients, sock, hpc, nacc, pending, bi, cur, hfailed,
                   probes>>
    /\ UNCHANGED <<cvars, qpc, peer, pvars, kvars, avars, tvars>>

\* the messagebox of a refused call is dismissed, or Tk has reported the
\* exception that left the callback: the main thread is back in its event loop
BcastReturn ==
    /\ mpc \in {"b_refused", "b_raised"}
    /\ mpc' = "idle"
    /\ UNCHANGED <<running, lsock, clients, sock, hpc, nacc, pending, bi, cur, failed, sent, ci,
                   bstart, written, quiet, hfailed, probes>>
    /\ UNCHANGED <<cvars, xvars>>

\* the credential file as reset_admin_password of security_manager.py leaves
\* it: salt:hash
InitialCredential == HashPassword(<<"0">>, [i \in 1..SaltLen |-> "0"])

\* the constructor has run with the credential file in place
InitCred ==
    /\ pwfile = [exists |-> TRUE, text |-> InitialCredential]
    /\ admin_password = [set |-> TRUE, text |-> InitialCredential]
    /\ built = "ready"

\* the process has started and the constructor has not run yet
InitBoot ==
    /\ pwfile \in {[exists |-> TRUE, text |-> InitialCredential],
                   [exists |-> FALSE, text |-> << >>]}
    /\ admin_password = [set |-> FALSE, text |-> << >>]
    /\ built = "new"

InitExtra ==
    /\ is_authenticated = FALSE
    /\ current_admin = "None"
    /\ msg = << >>
    /\ outs = {}
    /\ nser = 0
    /\ nexc = 0
    /\ acchist = "none"
    /\ qpc = "live"
    /\ peer = [s \in Sessions |-> 0]
    /\ vstored = [str |-> TRUE, text |-> << >>]
    /\ vhashed = [some |-> FALSE, text |-> << >>]
    /\ vcand = << >>
    /\ vres = "none"
    /\ ocolor = << >>
    /\ obg = << >>
    /\ otext = << >>
    /\ pdue = TRUE
    /\ rseen = {}
    /\ wsent = << >>
    /\ wire = << >>
    /\ wgot = << >>
    /\ wbad = 0
    /\ wdisc = 0
    /\ wnping = 0
    /\ admin_name_entry = ""
    /\ admin_pass_entry = << >>
    /\ dialog = [open |-> FALSE, current |-> << >>, new |-> << >>, confirm |-> << >>]

Init == InitServer /\ InitClient /\ InitExtra /\ InitCred

Next ==
    \/ AcceptConn
    \/ \E s \in Sessions : AcceptRegister(s)
    \/ AcceptExit
    \/ \E s \in Sessions : HbLoop(s)
    \/ \E s \in Sessions : HbSend(s)
    \/ \E s \in Sessions : HbFinCheck(s)
    \/ \E s \in Sessions : HbFinRemove(s)
    \/ \E s \in Sessions : HbFinClose(s)
    \/ \E s \in Sessions : PeerDies(s)
    \/ StartServer
    \/ StopBegin
    \/ StopNext
    \/ StopClear
    \/ BcastStart
    \/ BcastNext
    \/ BcastSend
    \/ BcastChk
    \/ BcastRm
    \/ BcastClose
    \/ BcastEnd
    \/ BcastReturn

Spec == Init /\ [][Next]_vars

\* the runs in which the server, once started, is not stopped
NextRun ==
    \/ StartServer
    \/ AcceptConn
    \/ \E s \in Sessions : AcceptRegister(s)
    \/ \E s \in Sessions : HbLoop(s)
    \/ \E s \in Sessions : HbSend(s)
    \/ \E s \in Sessions : HbFinCheck(s)
    \/ \E s \in Sessions : HbFinRemove(s)
    \/ \E s \in Sessions : HbFinClose(s)
    \/ \E s \in Sessions : PeerDies(s)
    \/ BcastStart
    \/ BcastNext
    \/ BcastSend
    \/ BcastChk
    \/ BcastRm
    \/ BcastClose
    \/ BcastEnd
    \/ BcastReturn

SpecRun == Init /\ [][NextRun]_vars

\* the runs in which the server is not stopped and no broadcast is attempted
NextProbe ==
    \/ StartServer
    \/ AcceptConn
    \/ \E s \in Sessions : AcceptRegister(s)
    \/ \E s \in Sessions : HbLoop(s)
    \/ \E s \in Sessions : HbSend(s)
    \/ \E s \in Sessions : HbFinCheck(s)
    \/ \E s \in Sessions : HbFinRemove(s)
    \/ \E s \in Sessions : HbFinClose(s)
    \/ \E s \in Sessions : PeerDies(s)

SpecProbe == Init /\ [][NextProbe]_vars

(* ------------------ construction and the credential -------------------- *)
\* mutant of LoadedPassword: a missing file is answered with a default credential
LoadedPassword_Default(file, open_ok) ==
    IF file.exists /\ open_ok THEN [set |-> TRUE, text |-> file.text]
    ELSE [set |-> TRUE, text |-> InitialCredential]

\* load_admin_password: the text of the file, or not set when it raises
\* (the file is missing, or open()/read() raises)
LoadedPassword(file, open_ok) ==
    IF file.exists /\ open_ok THEN [set |-> TRUE, text |-> file.text]
    ELSE [set |-> FALSE, text |-> << >>]

\* __init__: self.admin_password = self.load_admin_password()
LoadAdminPassword(open_ok) ==
    /\ built = "new"
    /\ admin_password' = LoadedPassword(pwfile, open_ok)
    /\ built' = IF LoadedPassword(pwfile, open_ok).set THEN "loaded" ELSE "failed"
    /\ UNCHANGED <<pwfile, svars, cvars, qpc, peer, pvars, avars, bvars, tvars>>

\* __init__: if not os.path.exists(self.password_file): ... sys.exit(1);
\* otherwise setup_gui() and the constructor returns
CheckExists ==
    /\ built = "loaded"
    /\ built' = IF pwfile.exists THEN "ready" ELSE "failed"
    /\ UNCHANGED <<pwfile, admin_password, svars, cvars, qpc, peer, pvars, avars, bvars,
                   tvars>>

\* somebody deletes the credential file
FileDeleted ==
    /\ pwfile.exists
    /\ pwfile' = [exists |-> FALSE, text |-> << >>]
    /\ UNCHANGED <<admin_password, built, svars, cvars, qpc, peer, pvars, avars, bvars,
                   tvars>>

AdminNames == {"alice", "bob"}

\* authenticate_admin with a name and a password entered
Authenticate(name, cand) ==
    /\ built = "ready"
    /\ mpc = "idle"
    /\ ~is_authenticated
    /\ cand # << >>
    /\ IF VerifyPassword(cand, [str |-> TRUE, text |-> admin_password.text]) = "True"
          THEN /\ current_admin' = name
               /\ is_authenticated' = TRUE
          ELSE UNCHANGED <<current_admin, is_authenticated>>
    /\ UNCHANGED <<svars, cvars, qpc, peer, pvars, kvars, bvars, tvars>>

\* logout_admin, which also empties the two entries
Logout ==
    /\ built = "ready"
    /\ mpc = "idle"
    /\ is_authenticated
    /\ current_admin' = "None"
    /\ is_authenticated' = FALSE
    /\ admin_name_entry' = ""
    /\ admin_pass_entry' = << >>
    /\ UNCHANGED <<svars, cvars, qpc, peer, kvars, bvars, tvars, hvars, ovars, lvars, wvars,
                   dialog>>

\* the last element of a set of positions
MaxOf(ps) == CHOOSE i \in ps : \A j \in ps : j <= i

\* str.strip() of a text given by its characters
StripSeq(s) ==
    LET ps == {i \in 1..Len(s) : s[i] # " "}
    IN  IF ps = {} THEN << >> ELSE SubSeq(s, MinOf(ps), MaxOf(ps))

\* the texts typed into the name entry
NameEntries == {"", " ", "alice", " bob "}

\* str.strip() of a text typed into the name entry
StripName(e) == IF e \in {"", " "} THEN "" ELSE IF e = " bob " THEN "bob" ELSE e

\* the texts typed into the password entry: the passwords, and texts with
\* blanks around them
PassEntries == Passwords \cup {<<" ">>, <<" ", "0">>}

\* the operator types into the two entries, which are enabled while nobody is
\* logged in
TypeLogin(name, password) ==
    /\ built = "ready"
    /\ mpc = "idle"
    /\ ~is_authenticated
    /\ admin_name_entry' = name
    /\ admin_pass_entry' = password
    /\ UNCHANGED dialog
    /\ UNCHANGED <<svars, cvars, qpc, peer, kvars, avars, bvars, tvars, hvars, ovars, lvars,
                   wvars>>

\* mutant of LoginAccepted: the password is not verified
LoginAccepted_NoVerify(admin_name, password) == admin_name # "" /\ password # << >>

\* authenticate_admin: the two early returns have not been taken and
\* verify_password has returned True
LoginAccepted(admin_name, password) ==
    /\ admin_name # ""
    /\ password # << >>
    /\ VerifyPassword(password, [str |-> TRUE, text |-> admin_password.text]) = "True"

\* authenticate_admin, the command of the Login button, which is enabled while
\* nobody is logged in
ClickLogin ==
    /\ built = "ready"
    /\ mpc = "idle"
    /\ ~is_authenticated
    /\ IF LoginAccepted(StripName(admin_name_entry), StripSeq(admin_pass_entry))
          THEN /\ current_admin' = StripName(admin_name_entry)
               /\ is_authenticated' = TRUE
          ELSE UNCHANGED <<current_admin, is_authenticated>>
    /\ UNCHANGED <<svars, cvars, qpc, peer, pvars, kvars, bvars, tvars>>

\* what save_admin_password can do: write the file, fail in open() before the
\* file is touched, or fail in write()/close() after open(..., 'w') has
\* truncated it
SaveOutcomes == {"saved", "open_fails", "write_fails"}

\* the credential file after save_admin_password(hashed)
FileAfterSave(file, hashed, outcome) ==
    IF outcome = "saved" THEN [exists |-> TRUE, text |-> hashed]
    ELSE IF outcome = "open_fails" THEN file
    ELSE [exists |-> TRUE, text |-> << >>]

\* change_admin_password(new_password) from the dialog of the authenticated
\* operator: hash_password, save_admin_password, and the assignment to
\* self.admin_password only when the save returned True
ChangeAdminPassword(new_password, salt, outcome) ==
    /\ built = "ready"
    /\ mpc = "idle"
    /\ is_authenticated
    /\ new_password # << >>
    /\ pwfile' = FileAfterSave(pwfile, HashPassword(new_password, salt), outcome)
    /\ admin_password' = IF outcome = "saved"
                            THEN [set |-> TRUE, text |-> HashPassword(new_password, salt)]
                            ELSE admin_password
    /\ mpc' = IF outcome = "saved" THEN "cp_ok" ELSE "cp_failed"
    /\ UNCHANGED built
    /\ UNCHANGED <<running, lsock, clients, sock, hpc, nacc, pending, bi, cur, failed, sent,
                   ci, bstart, written, quiet, hfailed, probes>>
    /\ UNCHANGED <<cvars, qpc, peer, pvars, avars, bvars, tvars>>

\* the process from its start: construction, login, password change, and the
\* server switched on and off with no client connecting
NextCred ==
    \/ \E open_ok \in BOOLEAN : LoadAdminPassword(open_ok)
    \/ CheckExists
    \/ FileDeleted
    \/ \E name \in AdminNames, cand \in Passwords : Authenticate(name, cand)
    \/ Logout
    \/ \E new_password \in Passwords, salt \in Salts, outcome \in SaveOutcomes :
          ChangeAdminPassword(new_password, salt, outcome)
    \/ DialogReturn
    \/ StartServer
    \/ AcceptExit
    \/ StopBegin
    \/ StopNext
    \/ StopClear
    \/ BcastStart
    \/ BcastReturn

\* the state of the process before AlarmServerGUI() is called
InitStart == InitServer /\ InitClient /\ InitExtra /\ InitBoot

SpecCred == InitStart /\ [][NextCred]_vars

\* the constructed server with its operator and clients that stay: start,
\* failed start, stop, the accept loop with failing accepts, login, logout
\* and broadcasts
NextAdmin ==
    \/ StartServer
    \/ \E where \in {"socket", "bind"} : StartServerFail(where)
    \/ DialogReturn
    \/ AcceptConn
    \/ AcceptFail
    \/ AcceptRetry
    \/ \E s \in Sessions : AcceptRegister(s)
    \/ AcceptExit
    \/ StopBegin
    \/ StopNext
    \/ StopClear
    \/ \E name \in AdminNames, cand \in Passwords : Authenticate(name, cand)
    \/ Logout
    \/ BcastStart
    \/ BcastNext
    \/ BcastSend
    \/ BcastChk
    \/ BcastEnd
    \/ BcastReturn

SpecAdmin == Init /\ [][NextAdmin]_vars

(* ------------------ Tk main thread: the alarm buttons ------------------- *)
\* the names an operator can log in under: the name entry is free text, and
\* authenticate_admin refuses only the empty one
OperatorNames == AdminNames \cup {"Unknown"}

\* mutant of CheckAdminAuth: the check lets everybody through
CheckAdminAuth_Pass == TRUE

\* check_admin_auth: False, after a warning box, if not self.is_authenticated
CheckAdminAuth == is_authenticated

\* send_custom_alarm, the send_*_alarm quick alarms and
\* send_alarm_with_instructions up to the confirmation box:
\* `if not self.check_admin_auth(): return`, the warning for a text that is
\* missing (entered = FALSE), then confirm_alarm_sending
OperatorSend(entered) ==
    /\ built = "ready"
    /\ mpc = "idle"
    /\ mpc' = IF CheckAdminAuth /\ entered THEN "confirm" ELSE "op_warned"
    /\ UNCHANGED <<running, lsock, clients, sock, hpc, nacc, pending, bi, cur, failed, sent,
                   ci, bstart, written, quiet, hfailed, probes>>
    /\ UNCHANGED <<cvars, xvars>>

\* the warning box of a send that was not allowed or had no text is dismissed
OperatorWarned ==
    /\ mpc = "op_warned"
    /\ mpc' = "idle"
    /\ UNCHANGED <<running, lsock, clients, sock, hpc, nacc, pending, bi, cur, failed, sent,
                   ci, bstart, written, quiet, hfailed, probes>>
    /\ UNCHANGED <<cvars, xvars>>

\* messagebox.askyesno returns True: self.broadcast_alarm(message, ...)
ConfirmYes == BroadcastAlarm("confirm")

\* messagebox.askyesno returns False: `if not self.confirm_alarm_sending(message): return`
ConfirmNo ==
    /\ mpc = "confirm"
    /\ mpc' = "idle"
    /\ UNCHANGED <<running, lsock, clients, sock, hpc, nacc, pending, bi, cur, failed, sent,
                   ci, bstart, written, quiet, hfailed, probes>>
    /\ UNCHANGED <<cvars, xvars>>

\* the server with an operator who logs in and out and presses alarm buttons
NextOperator ==
    \/ StartServer
    \/ AcceptConn
    \/ \E s \in Sessions : AcceptRegister(s)
    \/ \E name \in OperatorNames, cand \in Passwords : Authenticate(name, cand)
    \/ Logout
    \/ \E entered \in BOOLEAN : OperatorSend(entered)
    \/ OperatorWarned
    \/ ConfirmYes
    \/ ConfirmNo
    \/ BcastNext
    \/ BcastSend
    \/ BcastChk
    \/ BcastEnd
    \/ BcastReturn

SpecOperator == Init /\ [][NextOperator]_vars

\* the operator at the login frame, with the credential changing under them
NextLogin ==
    \/ \E name \in NameEntries, password \in PassEntries : TypeLogin(name, password)
    \/ ClickLogin
    \/ Logout
    \/ \E new_password \in Passwords, salt \in Salts, outcome \in SaveOutcomes :
          ChangeAdminPassword(new_password, salt, outcome)
    \/ DialogReturn

SpecLogin == Init /\ [][NextLogin]_vars

(* --------------- the Change Admin Password dialog ----------------------- *)
\* the length a new password must have at least
MinNewLen == 8

\* the text of n characters ch
Rep(ch, n) == [i \in 1..n |-> ch]

\* the texts typed into the current password entry
CurrentEntries == {<<"0">>, <<":">>, <<" ", "0">>, Rep("0", MinNewLen)}

\* the texts typed into the new password and the confirmation entry: one
\* character short, long enough, long enough only with the blank in front, and
\* another one that is long enough
NewEntries ==
    {Rep("0", MinNewLen - 1), Rep("0", MinNewLen), <<" ">> \o Rep("0", MinNewLen - 1),
     Rep(":", MinNewLen)}

ClosedDialog == [open |-> FALSE, current |-> << >>, new |-> << >>, confirm |-> << >>]

\* show_change_password_dialog: refused when nobody is logged in; otherwise
\* the dialog is created and takes the grab, so that the main window gets no
\* input until it is destroyed
OpenChangeDialog ==
    /\ built = "ready"
    /\ mpc = "idle"
    /\ IF ~is_authenticated
          THEN UNCHANGED <<mpc, dialog>>
          ELSE /\ mpc' = "cp_dialog"
               /\ dialog' = [ClosedDialog EXCEPT !.open = TRUE]
    /\ UNCHANGED <<admin_name_entry, admin_pass_entry>>
    /\ UNCHANGED <<running, lsock, clients, sock, hpc, nacc, pending, bi, cur, failed, sent,
                   ci, bstart, written, quiet, hfailed, probes>>
    /\ UNCHANGED <<cvars, qpc, peer, kvars, avars, bvars, tvars, hvars, ovars, lvars, wvars>>

\* the operator types into the three entries of the dialog
TypeDialog(current, new, confirm) ==
    /\ mpc = "cp_dialog"
    /\ dialog' = [open |-> TRUE, current |-> current, new |-> new, confirm |-> confirm]
    /\ UNCHANGED <<admin_name_entry, admin_pass_entry>>
    /\ UNCHANGED <<svars, cvars, qpc, peer, kvars, avars, bvars, tvars, hvars, ovars, lvars,
                   wvars>>

\* mutant of NewPasswordOk: a new password of any length is taken
NewPasswordOk_Any(new_password) == TRUE

\* not (len(new_password) < 8)
NewPasswordOk(new_password) == Len(new_password) >= MinNewLen

\* change_password: the three checks that come before change_admin_password
ChangeChecksPass(current_password, new_password, confirm_password) ==
    /\ VerifyPassword(current_password, [str |-> TRUE, text |-> admin_password.text]) = "True"
    /\ NewPasswordOk(new_password)
    /\ new_password = confirm_password

\* change_password, the command of the dialog's Change Password button: a
\* failed check is reported and the dialog stays; otherwise
\* change_admin_password hashes and saves the new password and, when the save
\* returned True, assigns it, and the dialog is destroyed
ClickChange(salt, outcome) ==
    /\ mpc = "cp_dialog"
    /\ LET current_password == StripSeq(dialog.current)
           new_password == StripSeq(dialog.new)
           confirm_password == StripSeq(dialog.confirm)
       IN  IF ~ChangeChecksPass(current_password, new_password, confirm_password)
               THEN /\ mpc' = "cp_error"
                    /\ UNCHANGED <<kvars, dialog>>
               ELSE /\ pwfile' = FileAfterSave(pwfile, HashPassword(new_password, salt), outcome)
                    /\ admin_password' =
                          IF outcome = "saved"
                             THEN [set |-> TRUE, text |-> HashPassword(new_password, salt)]
                             ELSE admin_password
                    /\ mpc' = IF outcome = "saved" THEN "cp_ok" ELSE "cp_error"
                    /\ dialog' = IF outcome = "saved" THEN ClosedDialog ELSE dialog
                    /\ UNCHANGED built
    /\ UNCHANGED <<admin_name_entry, admin_pass_entry>>
    /\ UNCHANGED <<running, lsock, clients, sock, hpc, nacc, pending, bi, cur, failed, sent,
                   ci, bstart, written, quiet, hfailed, probes>>
    /\ UNCHANGED <<cvars, qpc, peer, avars, bvars, tvars, hvars, ovars, lvars, wvars>>

\* the message box that reports the error is dismissed: back to the dialog
ErrorDismissed ==
    /\ mpc = "cp_error"
    /\ mpc' = "cp_dialog"
    /\ UNCHANGED <<running, lsock, clients, sock, hpc, nacc, pending, bi, cur, failed, sent,
                   ci, bstart, written, quiet, hfailed, probes>>
    /\ UNCHANGED <<cvars, xvars>>

\* cancel_change: dialog.destroy()
CancelChange ==
    /\ mpc = "cp_dialog"
    /\ mpc' = "idle"
    /\ dialog' = ClosedDialog
    /\ UNCHANGED <<admin_name_entry, admin_pass_entry>>
    /\ UNCHANGED <<running, lsock, clients, sock, hpc, nacc, pending, bi, cur, failed, sent,
                   ci, bstart, written, quiet, hfailed, probes>>
    /\ UNCHANGED <<cvars, qpc, peer, kvars, avars, bvars, tvars, hvars, ovars, lvars, wvars>>

\* the operator logging in and out and using the dialog
NextChange ==
    \/ \E name \in AdminNames, cand \in Passwords : Authenticate(name, cand)
    \/ Logout
    \/ OpenChangeDialog
    \/ \E current \in CurrentEntries, new \in NewEntries, confirm \in NewEntries :
          TypeDialog(current, new, confirm)
    \/ \E salt \in Salts, outcome \in SaveOutcomes : ClickChange(salt, outcome)
    \/ ErrorDismissed
    \/ CancelChange
    \/ DialogReturn

SpecChange == Init /\ [][NextChange]_vars

(* ------------- colour functions called on their own -------------------- *)
\* the operator picks the colour of the next alarm
PickColor(c) ==
    /\ ocolor' = c
    /\ obg' = << >>
    /\ otext' = << >>
    /\ UNCHANGED <<svars, cvars, qpc, peer, kvars, avars, bvars, tvars, hvars, lvars, wvars, dvars>>

\* broadcast_alarm: bg_color = self.darken_color(color, 0.3);
\* text_color = self.get_contrast_color(color)
AlarmColors ==
    /\ ocolor # << >>
    /\ obg = << >>
    /\ obg' = DarkenColor(ocolor)
    /\ otext' = GetContrastColor(ocolor)
    /\ UNCHANGED <<ocolor, svars, cvars, qpc, peer, kvars, avars, bvars, tvars, hvars, lvars,
                   wvars, dvars>>

NextColor ==
    \/ \E c \in ColorInputs : PickColor(c)
    \/ AlarmColors

SpecColor == Init /\ [][NextColor]_vars

(* ============ client session manager: src/client/alarm_client.py ======== *)

\* a socket object no reference is left to: not self.socket, no thread's local
Unreferenced(i) == i # csock /\ \A k \in Threads : tsk[k] # i

\* the object socket.socket(...) returns
NewSock == CHOOSE i \in SockIds : Unreferenced(i) /\ \A j \in SockIds : j < i => ~Unreferenced(j)

\* the slot a new thread takes
FreeThread == CHOOSE k \in Threads : tpc[k] = "idle" /\ \A j \in Threads : j < k => tpc[j] # "idle"

\* close_socket(): if self.socket: close it; finally self.socket = None
SkAfterClose == IF csock = 0 THEN sk ELSE [sk EXCEPT ![csock] = "closed"]

\* what was waiting on a socket is gone once the socket is closed
StreamAfterClose == IF csock = 0 THEN stream ELSE [stream EXCEPT ![csock] = << >>]

\* a socket some thread can still read from
Referenced(i) == i = csock \/ \E k \in Threads : tsk[k] = i

\* what the read loop does with the bytes one recv returned:
\*   data == b"ping"                       -> "ping"   (continue)
\*   data.decode('utf-8') raises           -> "unicode" (UnicodeDecodeError is no JSONDecodeError)
\*   json.loads gives one object           -> "alarm"  (handed to handle_alarm)
\*   json.loads raises JSONDecodeError     -> "json"   (logged, continue)
Classify(data) ==
    IF data = <<"ping">> THEN "ping"
    ELSE IF \E i \in 1..Len(data) : data[i] = "bad8" THEN "unicode"
    ELSE IF data = <<"alarm">> THEN "alarm"
    ELSE "json"

\* the position of the read loop after one recv returned `data`
AfterData(data) == IF Classify(data) = "unicode" THEN "l_exc1" ELSE "l_loop"

\* data holds nothing but what the server writes, and an alarm among it
ServerAlarmIn(data) ==
    /\ \A i \in 1..Len(data) : data[i] \in {"ping", "alarm"}
    /\ \E i \in 1..Len(data) : data[i] = "alarm"

Malformed(data) == Classify(data) \in {"json", "unicode"}

ConnectPcs == {"c_close", "c_new", "c_begin", "c_end", "c_run", "c_exc1", "c_exc2"}

\* root.after(1000, self.attempt_connection)
AttemptConnection ==
    /\ qpc # "gone"
    /\ initDue
    /\ initDue' = FALSE
    /\ IF ~crun
          THEN /\ \E k \in Threads : tpc[k] = "idle"
               /\ tpc' = [tpc EXCEPT ![FreeThread] = "c_close"]
          ELSE UNCHANGED tpc
    /\ UNCHANGED <<crun, csock, sk, stream, tsk, srvUp, nalarm, delivered, lost,
                   upChecked, connSinceUp>>
    /\ UNCHANGED <<svars, xvars>>

\* mutant of RescheduledAfter: the check is scheduled again only when it
\* found the client connected
RescheduledAfter_IfConnected(started) == ~started

\* the last statement of periodic_reconnection_check, reached on both
\* branches: self.root.after(10000, self.periodic_reconnection_check)
RescheduledAfter(started) == TRUE

\* periodic_reconnection_check, which reschedules itself every 10 s
PeriodicCheck ==
    /\ qpc # "gone"
    /\ pdue
    /\ IF ~crun
          THEN /\ \E k \in Threads : tpc[k] = "idle"
               /\ tpc' = [tpc EXCEPT ![FreeThread] = "c_close"]
          ELSE UNCHANGED tpc
    /\ pdue' = RescheduledAfter(~crun)
    /\ upChecked' = (upChecked \/ srvUp)
    /\ UNCHANGED <<crun, csock, sk, stream, tsk, srvUp, initDue, nalarm, delivered, lost,
                   connSinceUp>>
    /\ UNCHANGED <<svars, qpc, peer, kvars, avars, bvars, tvars, hvars, ovars, wvars, dvars, rseen>>

\* connect_to_server: self.close_socket()
ConnClose(k) ==
    /\ tpc[k] = "c_close"
    /\ sk' = SkAfterClose
    /\ stream' = StreamAfterClose
    /\ csock' = 0
    /\ tpc' = [tpc EXCEPT ![k] = "c_new"]
    /\ UNCHANGED <<crun, tsk, srvUp, initDue, nalarm, delivered, lost,
                   upChecked, connSinceUp>>
    /\ UNCHANGED <<svars, xvars>>

\* self.socket = socket.socket(socket.AF_INET, socket.SOCK_STREAM)
ConnNew(k) ==
    /\ tpc[k] = "c_new"
    /\ sk' = [sk EXCEPT ![NewSock] = "fresh"]
    /\ stream' = [stream EXCEPT ![NewSock] = << >>]
    /\ csock' = NewSock
    /\ peer' = [s \in Sessions |-> IF peer[s] = NewSock THEN 0 ELSE peer[s]]
    /\ tpc' = [tpc EXCEPT ![k] = "c_begin"]
    /\ UNCHANGED <<crun, tsk, srvUp, initDue, nalarm, delivered, lost, upChecked, connSinceUp>>
    /\ UNCHANGED <<svars, qpc, gvars>>

\* self.socket.settimeout(10); self.socket.connect(...) is entered: both read
\* self.socket again, which is None or closed when another thread got there
ConnBegin(k) ==
    /\ tpc[k] = "c_begin"
    /\ IF csock = 0 \/ sk[csock] = "closed"
          THEN /\ tpc' = [tpc EXCEPT ![k] = "c_exc1"]
               /\ UNCHANGED tsk
          ELSE /\ tpc' = [tpc EXCEPT ![k] = "c_end"]
               /\ tsk' = [tsk EXCEPT ![k] = csock]
    /\ UNCHANGED <<crun, csock, sk, stream, srvUp, initDue, nalarm, delivered, lost,
                   upChecked, connSinceUp>>
    /\ UNCHANGED <<svars, xvars>>

\* connect returns (a server is listening) or raises (refused, timed out,
\* socket closed under it, socket already connected by another thread)
ConnEnd(k) ==
    /\ tpc[k] = "c_end"
    /\ IF sk[tsk[k]] = "fresh" /\ srvUp
          THEN /\ sk' = [sk EXCEPT ![tsk[k]] = "connected"]
               /\ tpc' = [tpc EXCEPT ![k] = "c_run"]
          ELSE /\ tpc' = [tpc EXCEPT ![k] = "c_exc1"]
               /\ UNCHANGED sk
    /\ tsk' = [tsk EXCEPT ![k] = 0]
    /\ UNCHANGED <<crun, csock, stream, srvUp, initDue, nalarm, delivered, lost,
                   upChecked, connSinceUp>>
    /\ UNCHANGED <<svars, xvars>>

\* self.running = True; the listen_for_alarms thread is started; return True
ConnRun(k) ==
    /\ tpc[k] = "c_run"
    /\ crun' = TRUE
    /\ connSinceUp' = TRUE
    /\ tpc' = [tpc EXCEPT ![k] = "l_loop"]
    /\ UNCHANGED <<csock, sk, stream, tsk, srvUp, initDue, nalarm, delivered, lost, upChecked>>
    /\ UNCHANGED <<svars, xvars>>

\* except Exception: ... self.running = False
ConnExc1(k) ==
    /\ tpc[k] = "c_exc1"
    /\ crun' = FALSE
    /\ tpc' = [tpc EXCEPT ![k] = "c_exc2"]
    /\ UNCHANGED <<csock, sk, stream, tsk, srvUp, initDue, nalarm, delivered, lost,
                   upChecked, connSinceUp>>
    /\ UNCHANGED <<svars, xvars>>

\* self.close_socket(); return False
ConnExc2(k) ==
    /\ tpc[k] = "c_exc2"
    /\ sk' = SkAfterClose
    /\ stream' = StreamAfterClose
    /\ csock' = 0
    /\ tpc' = [tpc EXCEPT ![k] = "idle"]
    /\ UNCHANGED <<crun, tsk, srvUp, initDue, nalarm, delivered, lost,
                   upChecked, connSinceUp>>
    /\ UNCHANGED <<svars, xvars>>

\* listen_for_alarms: while self.running: ... self.socket.recv(1024) is entered
ListenLoop(k) ==
    /\ tpc[k] = "l_loop"
    /\ IF ~crun
          THEN /\ tpc' = [tpc EXCEPT ![k] = "idle"]
               /\ UNCHANGED tsk
          ELSE IF csock = 0
          THEN /\ tpc' = [tpc EXCEPT ![k] = "l_exc1"]
               /\ UNCHANGED tsk
          ELSE /\ tpc' = [tpc EXCEPT ![k] = "l_recv"]
               /\ tsk' = [tsk EXCEPT ![k] = csock]
    /\ UNCHANGED <<crun, csock, sk, stream, srvUp, initDue, nalarm, delivered, lost,
                   upChecked, connSinceUp>>
    /\ UNCHANGED <<svars, xvars>>

\* recv returns the first n messages waiting on the stream, and the loop body
\* handles them up to its continue
RecvData(k) ==
    /\ tpc[k] = "l_recv"
    /\ sk[tsk[k]] \in {"connected", "eof"}
    /\ \E n \in 1..Len(stream[tsk[k]]) :
        LET data == SubSeq(stream[tsk[k]], 1, n)
        IN  /\ stream' = [stream EXCEPT ![tsk[k]] = SubSeq(@, n + 1, Len(@))]
            /\ tpc' = [tpc EXCEPT ![k] = AfterData(data)]
            /\ delivered' = IF Classify(data) = "alarm" THEN delivered + 1 ELSE delivered
            /\ lost' = (lost \/ (Classify(data) = "json" /\ ServerAlarmIn(data)))
    /\ tsk' = [tsk EXCEPT ![k] = 0]
    /\ UNCHANGED <<crun, csock, sk, srvUp, initDue, nalarm, upChecked, connSinceUp>>
    /\ UNCHANGED <<svars, qpc, peer, kvars, avars, bvars, tvars, hvars, ovars, wvars, dvars, pdue>>

ListenData(k) == RecvData(k) /\ UNCHANGED rseen

\* the recv of thread k has the heartbeat sentinel, and nothing else, to return
PingAlone(k) ==
    /\ stream[tsk[k]] # << >>
    /\ Head(stream[tsk[k]]) = "ping"
    /\ stream'[tsk[k]] = Tail(stream[tsk[k]])

\* ListenData with the history of the read loop kept
ListenDataSeen(k) ==
    /\ RecvData(k)
    /\ rseen' = IF PingAlone(k) THEN rseen \cup {"ping"} ELSE rseen

\* mutant of AfterEmptyRead: the empty read is taken for "no data yet"
AfterEmptyRead_Continue == "l_loop"

\* `if not data:` the loop goes to self.running = False; close_socket(); break
AfterEmptyRead == "l_exc1"

\* mutant of AfterTimeout: the timeout is handled like any other exception
AfterTimeout_Error == "l_exc1"

\* except socket.timeout: continue
AfterTimeout == "l_loop"

\* recv times out (socket.timeout: continue), returns b"" at the end of the
\* stream, or raises on a socket that is closed or not connected
RecvNoData(k) ==
    /\ tpc[k] = "l_recv"
    /\ \/ /\ sk[tsk[k]] = "connected"
          /\ stream[tsk[k]] = << >>
          /\ tpc' = [tpc EXCEPT ![k] = AfterTimeout]
       \/ /\ sk[tsk[k]] = "eof"
          /\ stream[tsk[k]] = << >>
          /\ tpc' = [tpc EXCEPT ![k] = AfterEmptyRead]
       \/ /\ sk[tsk[k]] \in {"closed", "fresh"}
          /\ tpc' = [tpc EXCEPT ![k] = "l_exc1"]
    /\ tsk' = [tsk EXCEPT ![k] = 0]
    /\ UNCHANGED <<crun, csock, sk, stream, srvUp, initDue, nalarm, delivered, lost,
                   upChecked, connSinceUp>>
    /\ UNCHANGED <<svars, qpc, peer, kvars, avars, bvars, tvars, hvars, ovars, wvars, dvars, pdue>>

ListenNoData(k) == RecvNoData(k) /\ UNCHANGED rseen

\* the recv of thread k has nothing to return and the connection is up
TimesOut(k) == sk[tsk[k]] = "connected" /\ stream[tsk[k]] = << >>

\* ListenNoData with the history of the read loop kept
ListenNoDataSeen(k) ==
    /\ RecvNoData(k)
    /\ rseen' = IF TimesOut(k) THEN rseen \cup {"timeout"} ELSE rseen

\* self.running = False   (after b"" and in except Exception)
ListenExc1(k) ==
    /\ tpc[k] = "l_exc1"
    /\ crun' = FALSE
    /\ tpc' = [tpc EXCEPT ![k] = "l_exc2"]
    /\ UNCHANGED <<csock, sk, stream, tsk, srvUp, initDue, nalarm, delivered, lost,
                   upChecked, connSinceUp>>
    /\ UNCHANGED <<svars, xvars>>

\* self.close_socket(); break
ListenExc2(k) ==
    /\ tpc[k] = "l_exc2"
    /\ sk' = SkAfterClose
    /\ stream' = StreamAfterClose
    /\ csock' = 0
    /\ tpc' = [tpc EXCEPT ![k] = "idle"]
    /\ UNCHANGED <<crun, tsk, srvUp, initDue, nalarm, delivered, lost,
                   upChecked, connSinceUp>>
    /\ UNCHANGED <<svars, xvars>>

(* ------------------------- the client's peer ---------------------------- *)
\* a server starts listening and stays up
ServerUp ==
    /\ ~srvUp
    /\ srvUp' = TRUE
    /\ UNCHANGED <<crun, csock, sk, stream, tpc, tsk, initDue, nalarm, delivered, lost,
                   upChecked, connSinceUp>>
    /\ UNCHANGED <<svars, xvars>>

\* the peer writes one message: the server's b"ping" or message_json, or
\* bytes that are no JSON text, or bytes that are no UTF-8
PeerWrite(i, tok) ==
    /\ sk[i] = "connected"
    /\ Referenced(i)
    /\ Len(stream[i]) < MaxStream
    /\ tok = "alarm" => nalarm < MaxAlarms
    /\ stream' = [stream EXCEPT ![i] = Append(@, tok)]
    /\ nalarm' = IF tok = "alarm" THEN nalarm + 1 ELSE nalarm
    /\ UNCHANGED <<crun, csock, sk, tpc, tsk, srvUp, initDue, delivered, lost,
                   upChecked, connSinceUp>>
    /\ UNCHANGED <<svars, xvars>>

\* the peer closes the connection
PeerClose(i) ==
    /\ sk[i] = "connected"
    /\ Referenced(i)
    /\ sk' = [sk EXCEPT ![i] = "eof"]
    /\ UNCHANGED <<crun, csock, stream, tpc, tsk, srvUp, initDue, nalarm, delivered, lost,
                   upChecked, connSinceUp>>
    /\ UNCHANGED <<svars, xvars>>

NextClient ==
    \/ AttemptConnection
    \/ PeriodicCheck
    \/ \E k \in Threads : ConnClose(k)
    \/ \E k \in Threads : ConnNew(k)
    \/ \E k \in Threads : ConnBegin(k)
    \/ \E k \in Threads : ConnEnd(k)
    \/ \E k \in Threads : ConnRun(k)
    \/ \E k \in Threads : ConnExc1(k)
    \/ \E k \in Threads : ConnExc2(k)
    \/ \E k \in Threads : ListenLoop(k)
    \/ \E k \in Threads : ListenData(k)
    \/ \E k \in Threads : ListenNoData(k)
    \/ \E k \in Threads : ListenExc1(k)
    \/ \E k \in Threads : ListenExc2(k)
    \/ ServerUp
    \/ \E i \in SockIds, tok \in Tokens : PeerWrite(i, tok)
    \/ \E i \in SockIds : PeerClose(i)

SpecClient == Init /\ [][NextClient]_vars

\* the client that makes the connection attempt of its start and reads what
\* the peer writes
NextRead ==
    \/ AttemptConnection
    \/ \E k \in Threads : ConnClose(k)
    \/ \E k \in Threads : ConnNew(k)
    \/ \E k \in Threads : ConnBegin(k)
    \/ \E k \in Threads : ConnEnd(k)
    \/ \E k \in Threads : ConnRun(k)
    \/ \E k \in Threads : ConnExc1(k)
    \/ \E k \in Threads : ConnExc2(k)
    \/ \E k \in Threads : ListenLoop(k)
    \/ \E k \in Threads : ListenDataSeen(k)
    \/ \E k \in Threads : ListenNoDataSeen(k)
    \/ \E k \in Threads : ListenExc1(k)
    \/ \E k \in Threads : ListenExc2(k)
    \/ ServerUp
    \/ \E i \in SockIds, tok \in Tokens : PeerWrite(i, tok)
    \/ \E i \in SockIds : PeerClose(i)

SpecRead == Init /\ [][NextRead]_vars

\* the client with its scheduled checks and connect threads, until it is
\* Connected to a peer that writes nothing and stays
NextRetry ==
    \/ AttemptConnection
    \/ PeriodicCheck
    \/ \E k \in Threads : ConnClose(k)
    \/ \E k \in Threads : ConnNew(k)
    \/ \E k \in Threads : ConnBegin(k)
    \/ \E k \in Threads : ConnEnd(k)
    \/ \E k \in Threads : ConnRun(k)
    \/ \E k \in Threads : ConnExc1(k)
    \/ \E k \in Threads : ConnExc2(k)
    \/ \E k \in Threads : ListenLoop(k)
    \/ \E k \in Threads : ListenNoData(k)
    \/ \E k \in Threads : ListenExc1(k)
    \/ \E k \in Threads : ListenExc2(k)
    \/ ServerUp

SpecRetry == Init /\ [][NextRetry]_vars

\* the next step of client thread k in connect_to_server or listen_for_alarms
ThreadStep(k) ==
    \/ ConnClose(k)
    \/ ConnNew(k)
    \/ ConnBegin(k)
    \/ ConnEnd(k)
    \/ ConnRun(k)
    \/ ConnExc1(k)
    \/ ConnExc2(k)
    \/ ListenLoop(k)
    \/ ListenNoData(k)
    \/ ListenExc1(k)
    \/ ListenExc2(k)

\* SpecRetry with the Tk main loop running every callback that is due and
\* every started thread scheduled again and again
SpecRetryFair ==
    /\ SpecRetry
    /\ WF_vars(PeriodicCheck)
    /\ \A k \in Threads : WF_vars(ThreadStep(k))

(* ------------------- one connection, byte by byte ----------------------- *)
\* the alarms sent on the connection and the probes written to it
MaxWireAlarms == 1

MaxWirePings == 2

\* the chunks of several writes, joined
RECURSIVE Joined(_, _)
Joined(w, j) == IF j = 0 THEN << >> ELSE Joined(w, j - 1) \o w[j]

\* broadcast_alarm: alarm_data is built and serialized and client.send writes
\* the bytes to the connection
WireAlarm(message, color, admin) ==
    /\ Len(wsent) < MaxWireAlarms
    /\ wsent' = Append(wsent, WireAlarmOf(message, color, admin))
    /\ wire' = Append(wire, DumpsBytes(WireAlarmOf(message, color, admin)))
    /\ UNCHANGED <<wgot, wbad, wdisc, wnping>>
    /\ UNCHANGED <<svars, cvars, qpc, peer, kvars, avars, bvars, tvars, hvars, ovars, lvars, dvars>>

\* handle_client: client_socket.send(b"ping")
WirePing ==
    /\ wnping < MaxWirePings
    /\ wnping' = wnping + 1
    /\ wire' = Append(wire, HbProbe)
    /\ UNCHANGED <<wsent, wgot, wbad, wdisc>>
    /\ UNCHANGED <<svars, cvars, qpc, peer, kvars, avars, bvars, tvars, hvars, ovars, lvars, dvars>>

\* what recv(1024) returns when the first j writes have arrived
RecvOf(j) ==
    LET all == Joined(wire, j)
    IN  IF Len(all) <= RecvBufSize THEN all ELSE SubSeq(all, 1, RecvBufSize)

\* what stays in the connection after that recv
WireAfterRecv(j) ==
    LET all == Joined(wire, j)
        rest == IF Len(all) <= RecvBufSize THEN << >>
                ELSE SubSeq(all, RecvBufSize + 1, Len(all))
    IN  (IF rest = << >> THEN << >> ELSE <<rest>>) \o SubSeq(wire, j + 1, Len(wire))

\* listen_for_alarms: one turn of the loop in which recv returns data: the data
\* that equal the sentinel are dropped, the data json.loads accepts are handed
\* to handle_alarm, and the others are logged as invalid
WireRecv(j) ==
    /\ j \in 1..Len(wire)
    /\ wire' = WireAfterRecv(j)
    /\ LET data == RecvOf(j)
           alarm_data == LoadsBytes(data)
       IN  IF data = PingSentinel
               THEN wdisc' = wdisc + 1 /\ UNCHANGED <<wgot, wbad>>
           ELSE IF alarm_data.ok
               THEN wgot' = Append(wgot, alarm_data.obj) /\ UNCHANGED <<wbad, wdisc>>
           ELSE wbad' = wbad + 1 /\ UNCHANGED <<wgot, wdisc>>
    /\ UNCHANGED <<wsent, wnping>>
    /\ UNCHANGED <<svars, cvars, qpc, peer, kvars, avars, bvars, tvars, hvars, ovars, lvars, dvars>>

NextWire ==
    \/ \E color \in WireColors, admin \in WireAdmins :
            \E message \in WireBodies(color, admin) : WireAlarm(message, color, admin)
    \/ WirePing
    \/ \E j \in 1..(MaxWireAlarms + MaxWirePings) : WireRecv(j)

SpecWire == Init /\ [][NextWire]_vars

(* ------------------ client: explicit shutdown --------------------------- *)
\* disconnect(): self.running = False.  Its caller quit_application is the
\* tray menu's Exit callback, run on the tray thread, so the Tk callbacks and
\* the client threads interleave with it
Disconnect ==
    /\ qpc \in {"live", "down"}
    /\ crun' = FALSE
    /\ qpc' = "d_close"
    /\ UNCHANGED <<csock, sk, stream, tpc, tsk, srvUp, initDue, nalarm, delivered, lost,
                   upChecked, connSinceUp>>
    /\ UNCHANGED <<svars, peer, gvars>>

\* disconnect(): self.close_socket(), status and log; disconnect returns
DisconnectClose ==
    /\ qpc = "d_close"
    /\ sk' = SkAfterClose
    /\ stream' = StreamAfterClose
    /\ csock' = 0
    /\ qpc' = "down"
    /\ UNCHANGED <<crun, tpc, tsk, srvUp, initDue, nalarm, delivered, lost,
                   upChecked, connSinceUp>>
    /\ UNCHANGED <<svars, peer, gvars>>

\* quit_application / on_closing after disconnect(): self.root.destroy()
Destroy ==
    /\ qpc = "down"
    /\ qpc' = "gone"
    /\ UNCHANGED <<cvars, svars, peer, gvars>>

\* the client with its shutdown, in the runs in which the peer writes nothing
NextShutdown ==
    \/ AttemptConnection
    \/ PeriodicCheck
    \/ \E k \in Threads : ConnClose(k)
    \/ \E k \in Threads : ConnNew(k)
    \/ \E k \in Threads : ConnBegin(k)
    \/ \E k \in Threads : ConnEnd(k)
    \/ \E k \in Threads : ConnRun(k)
    \/ \E k \in Threads : ConnExc1(k)
    \/ \E k \in Threads : ConnExc2(k)
    \/ \E k \in Threads : ListenLoop(k)
    \/ \E k \in Threads : ListenNoData(k)
    \/ \E k \in Threads : ListenExc1(k)
    \/ \E k \in Threads : ListenExc2(k)
    \/ ServerUp
    \/ \E i \in SockIds : PeerClose(i)
    \/ Disconnect
    \/ DisconnectClose
    \/ Destroy

SpecShutdown == Init /\ [][NextShutdown]_vars

(* ------------- the client connected to this server --------------------- *)
\* accept() returns the connection the client has made on socket object i
LinkAccept(i) ==
    /\ sk[i] = "connected"
    /\ \A s \in Sessions : peer[s] # i
    /\ AcceptFrom(i)

\* the server has closed the session's socket: the client's end is at its
\* end of stream, recv returns b""
LinkEof(s) ==
    /\ peer[s] # 0
    /\ sock[s] = "closed"
    /\ sk[peer[s]] = "connected"
    /\ sk' = [sk EXCEPT ![peer[s]] = "eof"]
    /\ UNCHANGED <<crun, csock, stream, tpc, tsk, srvUp, initDue, nalarm, delivered, lost,
                   upChecked, connSinceUp>>
    /\ UNCHANGED <<svars, xvars>>

\* server and client together, in the runs without a broadcast in which the
\* client makes the one connection attempt of its start, the other sessions
\* are held by clients outside the model, and no peer goes away by itself
NextLink ==
    \/ StartServer
    \/ AcceptConn
    \/ \E i \in SockIds : LinkAccept(i)
    \/ \E s \in Sessions : AcceptRegister(s)
    \/ \E s \in Sessions : HbLoop(s)
    \/ \E s \in Sessions : HbSend(s)
    \/ \E s \in Sessions : HbFinCheck(s)
    \/ \E s \in Sessions : HbFinRemove(s)
    \/ \E s \in Sessions : HbFinClose(s)
    \/ StopBegin
    \/ StopNext
    \/ StopClear
    \/ AttemptConnection
    \/ \E k \in Threads : ConnClose(k)
    \/ \E k \in Threads : ConnNew(k)
    \/ \E k \in Threads : ConnBegin(k)
    \/ \E k \in Threads : ConnEnd(k)
    \/ \E k \in Threads : ConnRun(k)
    \/ \E k \in Threads : ConnExc1(k)
    \/ \E k \in Threads : ConnExc2(k)
    \/ \E k \in Threads : ListenLoop(k)
    \/ \E k \in Threads : ListenNoData(k)
    \/ \E k \in Threads : ListenExc1(k)
    \/ \E k \in Threads : ListenExc2(k)
    \/ ServerUp
    \/ \E s \in Sessions : LinkEof(s)

SpecLink == Init /\ [][NextLink]_vars

(* ------------- credential functions called on their own ---------------- *)
\* stored = hash_password(p)
CallHashPassword(p, salt) ==
    /\ vstored' = [str |-> TRUE, text |-> HashPassword(p, salt)]
    /\ vhashed' = [some |-> TRUE, text |-> p]
    /\ vcand' = << >>
    /\ vres' = "none"
    /\ UNCHANGED <<svars, cvars, qpc, peer, kvars, avars, bvars, tvars, ovars, lvars, wvars, dvars>>

\* stored is a value that did not come from hash_password
GiveStored(x) ==
    /\ vstored' = x
    /\ vhashed' = [some |-> FALSE, text |-> << >>]
    /\ vcand' = << >>
    /\ vres' = "none"
    /\ UNCHANGED <<svars, cvars, qpc, peer, kvars, avars, bvars, tvars, ovars, lvars, wvars, dvars>>

\* verify_password(c, stored)
CallVerifyPassword(c) ==
    /\ vres = "none"
    /\ vcand' = c
    /\ vres' = VerifyPassword(c, vstored)
    /\ UNCHANGED <<vstored, vhashed>>
    /\ UNCHANGED <<svars, cvars, qpc, peer, kvars, avars, bvars, tvars, ovars, lvars, wvars, dvars>>

NextVerify ==
    \/ \E p \in Passwords, salt \in Salts : CallHashPassword(p, salt)
    \/ \E x \in StoredInputs : GiveStored(x)
    \/ \E c \in Passwords : CallVerifyPassword(c)

SpecVerify == Init /\ [][NextVerify]_vars

(* ======================= claims about the server ======================== *)

\* C1: when a broadcast ends, every session that was registered when it
\* started and is still registered has been written to by it.
C1_BroadcastReachesEveryRegistered ==
    mpc = "b_end" =>
        \A s \in bstart : Contains(clients, s) => s \in written

\* C2: a broadcast over N sessions during which no other thread changes the
\* registry writes to all N, counts sent_count = N - K where K is the number
\* of sessions collected in disconnected_clients, and ends with those K out of
\* the registry and the other N - K still in it.
C2_BroadcastCounts ==
    (mpc = "b_end" /\ quiet) =>
        /\ written = bstart
        /\ Range(failed) \subseteq bstart
        /\ Cardinality(Range(failed)) = Len(failed)
        /\ sent = Cardinality(bstart) - Len(failed)
        /\ \A s \in Range(failed) : ~Contains(clients, s) /\ sock[s] = "closed"
        /\ \A s \in bstart \ Range(failed) : Contains(clients, s)

\* C2 witness: a broadcast over two sessions ended with one write sent and
\* one session collected as failed, the registry untouched by other threads.
C2_Witness ==
    /\ mpc = "b_end"
    /\ quiet
    /\ Cardinality(bstart) = 2
    /\ sent = 1
    /\ Len(failed) = 1

\* C3: no session has a heartbeat send and a broadcast send in progress at
\* the same time.
C3_WritesSerialized ==
    \A s \in Sessions : ~(hpc[s] = "sending" /\ mpc = "b_send" /\ cur = s)

\* C7: a heartbeat thread whose send raised sends nothing more on that
\* session, and when it ends the session is out of the registry and its
\* socket is closed.
C7_HeartbeatFailureCleansUp ==
    \A s \in Sessions : hfailed[s] =>
        /\ hpc[s] \in {"fin", "rm", "close", "crashed"}
        /\ hpc[s] \in {"close", "crashed"} => ~Contains(clients, s)
        /\ hpc[s] = "crashed" => sock[s] = "closed"

C9_RemovalNeverRaises ==
    /\ mpc # "b_raised"
    /\ \A s \in Sessions : hpc[s] # "crashed"

\* C10: once stop_server has returned (and until the next start_server), the
\* listening socket is closed, the server is not running, the registry is
\* empty and every accepted session's socket is closed.
C10_StoppedMeansAllClosed ==
    (mpc = "idle" /\ lsock = "closed") =>
        /\ ~running
        /\ clients = << >>
        /\ \A s \in Sessions : sock[s] \in {"unborn", "closed"}

(* ======================= claims about the client ======================== *)

\* C4: every alarm the server wrote and the read loop of the Connected
\* client took off the stream, with nothing but server writes around it, has
\* been handed to the consumer.
C4_NoServerAlarmLost == ~lost

\* C5: a recv that returned bytes which are neither the sentinel nor one JSON
\* text leaves the read loop running: the thread goes back to its loop and
\* neither self.running nor self.socket changes.
C5_MalformedKeepsConnected ==
    [][\A k \in Threads :
          (/\ tpc[k] = "l_recv"
           /\ tpc'[k] # "l_recv"
           /\ stream'[tsk[k]] # stream[tsk[k]]
           /\ Malformed(SubSeq(stream[tsk[k]], 1, Len(stream[tsk[k]]) - Len(stream'[tsk[k]]))))
          => (tpc'[k] = "l_loop" /\ crun' = crun /\ csock' = csock)]_vars

\* C6: once a periodic check has run with the server up and every connect
\* thread has run to its end, the client has been Connected.
C6_ConnectedAfterOneCheck ==
    (srvUp /\ upChecked /\ \A k \in Threads : tpc[k] \notin ConnectPcs) => connSinceUp

\* C11: once disconnect() has returned, the reconnect scheduler starts no
\* further connection attempt: no thread is put on connect_to_server.
C11_NoAttemptAfterShutdown ==
    [][qpc = "down" =>
          \A k \in Threads : ~(tpc[k] = "idle" /\ tpc'[k] = "c_close")]_vars

\* the session at the server's end of the connection whose client end is i
EofSeen(s) == peer[s] # 0 /\ sk[peer[s]] = "eof"

C15_VerifyAcceptsOnlyThePassword ==
    (vhashed.some /\ vres # "none") =>
        vres = (IF vcand = vhashed.text THEN "True" ELSE "False")

\* C15 witness: a password other than the hashed one was verified against the
\* value hash_password made, and was rejected.
C15_Witness ==
    /\ vhashed.some
    /\ Len(vhashed.text) = MaxPwLen
    /\ vcand # vhashed.text
    /\ Len(vcand) = MaxPwLen
    /\ vres = "False"

\* a stored value that is not salt:hash: no string, or a string with no colon
\* (the empty string among them) or with more than one
MalformedStored(x) == ~x.str \/ Len(SplitColon(x.text)) # 2

\* C16: verify_password returns False, and raises nothing, for every
\* malformed stored value.
C16_MalformedStoredIsFalse ==
    (MalformedStored(vstored) /\ vres # "none") => vres = "False"

\* C16 witness: verify_password has returned False for a stored value that
\* is no string.
C16_Witness ==
    /\ ~vstored.str
    /\ vres = "False"
\* C17: while the server listens, a failed accept registers no session and
\* starts no session thread, and the thread that leaves the except clause is
\* back at the top of the accept loop, where it accepts later connections
C17_FailedAcceptKeepsLoop ==
    /\ [][nexc' > nexc => /\ running
                          /\ clients' = clients
                          /\ pending' = pending
                          /\ sock' = sock
                          /\ hpc' = hpc]_vars
    /\ [][nexc' < nexc => nacc' = nacc + 1]_vars

\* C17: the one accept thread of this run failed an accept and accepted a
\* connection afterwards, which is registered
C17_Witness ==
    /\ acchist = "recovered"
    /\ running
    /\ Len(clients) > 0
    /\ nacc = 1

\* C18: a start_server whose socket(), bind() or listen() raises reports the
\* failure, leaves running False, has no open listener and starts no thread
C18_FailedStartNotListening ==
    /\ [][mpc' = "st_failed" /\ mpc # "st_failed"
             => ~running' /\ lsock' # "open" /\ nacc' = nacc /\ nexc' = nexc]_vars
    /\ [](mpc = "st_failed" => ~running /\ lsock # "open")

\* C18: bind() or listen() raised, the error box is up, nothing listens and
\* no accept thread exists
C18_Witness ==
    /\ mpc = "st_failed"
    /\ lsock = "unbound"
    /\ ~running
    /\ nacc + nexc + Cardinality(pending) = 0

\* the main thread is inside the send loop or the cleanup of broadcast_alarm
InBroadcast == mpc \in {"b_next", "b_send", "b_chk", "b_rm", "b_close", "b_end"}

\* C19: in one broadcast_alarm call the event is serialized once, and every
\* session written to gets that one byte sequence
C19_OneSerializationSamePayload ==
    InBroadcast => /\ nser = 1
                   /\ outs \subseteq {msg}
                   /\ (sent > 0 => outs = {msg})

\* C19: one call has written to two sessions
C19_Witness ==
    /\ InBroadcast
    /\ sent = 2
    /\ outs = {msg}

C14_FailedSaveLeavesStore ==
    [][mpc = "idle" /\ mpc' = "cp_failed"
         => admin_password' = admin_password /\ pwfile' = pwfile]_vars

\* 299 r + 587 g + 114 b < 127500 for the colour '#rrggbb': luminance below 0.5
DarkByRule(h) == 299 * Rgb(h)[1] + 587 * Rgb(h)[2] + 114 * Rgb(h)[3] < 127500

\* C28: in every alarm built, text_color is the contrast colour of bg_color:
\* #FFFFFF when the luminance of bg_color is below 0.5, #000000 otherwise
C28_TextContrastsBackground ==
    (obg # << >> /\ SixDigitHex(ocolor)) =>
        otext = (IF DarkByRule(obg) THEN White ELSE Black)

\* C29: for every colour of six hex digits get_contrast_color returns #FFFFFF
\* exactly when 299 R + 587 G + 114 B < 127500, and #000000 otherwise
C29_ContrastByLuminance ==
    (otext # << >> /\ SixDigitHex(ocolor)) =>
        otext = (IF DarkByRule(ocolor) THEN White ELSE Black)

\* the handle_clients threads that have been started and have not ended
AcceptThreads == nacc + nexc + Cardinality(pending)

\* C30: at most one accept loop thread is active at any time
C30_OneAcceptLoop == AcceptThreads <= 1

\* the heartbeat thread of session s has been started and has not ended
HbActive(s) == hpc[s] \in {"wait", "sending", "fin", "rm", "close"}

\* C26: a connection returned by accept is appended to the registry in the
\* next step of the accept thread, with nothing read from or written to it
\* before; its heartbeat thread is started in that step and only there, so no
\* probe precedes the registration and no session has a second thread
C26_RegisteredThenOneThread ==
    /\ [](\A s \in pending : /\ hpc[s] = "none"
                              /\ ~Contains(clients, s)
                              /\ sock[s] \in {"open", "peerClosed", "reset"})
    /\ [][\A s \in Sessions :
            (s \in pending /\ s \notin pending')
                => (clients' = Append(clients, s) /\ hpc'[s] = "wait" /\ sock'[s] = sock[s])]_vars
    /\ [][\A s \in Sessions :
            (hpc[s] # "wait" /\ hpc'[s] = "wait")
                => ((hpc[s] = "none" /\ s \in pending) \/ hpc[s] = "sending")]_vars
    /\ [][\A s \in Sessions : hpc[s] # "none" => hpc'[s] # "none"]_vars
    /\ [][\A s \in Sessions : hpc[s] \in {"done", "crashed"} => hpc'[s] = hpc[s]]_vars

\* C26: two connections were accepted and registered, and the thread of one
\* of them is about to send its probe
C26_Witness ==
    /\ running
    /\ Len(clients) = 2
    /\ \E s \in Sessions : Contains(clients, s) /\ hpc[s] = "sending"
    /\ \A s \in Sessions : Contains(clients, s) => HbActive(s)

\* the step leaves every session but s as it is: registered or not, its
\* socket, its heartbeat thread
OthersUntouched(s) ==
    \A r \in Sessions \ {s} :
        /\ sock'[r] = sock[r]
        /\ hpc'[r] = hpc[r]
        /\ Contains(clients', r) = Contains(clients, r)

\* the step leaves the listener and the accept loop as they are
ListenerUntouched ==
    /\ running' = running
    /\ lsock' = lsock
    /\ nacc' = nacc
    /\ nexc' = nexc
    /\ pending' = pending

\* C27: the steps that make and handle a failed write (the send and cleanup
\* of the heartbeat thread of s, the send and cleanup of broadcast_alarm)
\* change nothing but that session; a session whose own socket is in order
\* stays registered, and the server stays running
C27_WriteFailureIsLocal ==
    /\ [][\A s \in Sessions :
            (hpc[s] \in {"sending", "fin", "rm", "close"} /\ hpc'[s] # hpc[s])
                => (OthersUntouched(s) /\ ListenerUntouched)]_vars
    /\ [][(mpc = "b_send" /\ mpc' # mpc) => (OthersUntouched(cur) /\ ListenerUntouched)]_vars
    /\ [][(mpc \in {"b_rm", "b_close"} /\ mpc' # mpc)
            => (OthersUntouched(failed[ci]) /\ ListenerUntouched
                    /\ SendRaises(sock[failed[ci]]))]_vars
    /\ [](\A r \in Sessions : sock[r] = "open" => (r \in pending \/ Contains(clients, r)))
    /\ [][running => running']_vars

\* C27: the heartbeat write to one session failed and the session is removed
\* and closed, while another session is registered with its socket open, the
\* server runs and an accept thread is at its loop
C27_Witness ==
    \E s \in Sessions, r \in Sessions :
        /\ s # r
        /\ hpc[s] = "done"
        /\ sock[s] = "closed"
        /\ ~Contains(clients, s)
        /\ Contains(clients, r)
        /\ sock[r] = "open"
        /\ running
        /\ nacc > 0

\* the step in which the recv of thread k returns or raises
RecvReturns(k) == tpc[k] = "l_recv" /\ tpc'[k] # "l_recv"

\* the step leaves the client Connected or not as it was, the socket open,
\* what waits on the other sockets and what the consumer has got
ClientStateKept ==
    /\ crun' = crun
    /\ csock' = csock
    /\ sk' = sk
    /\ delivered' = delivered
    /\ lost' = lost

\* C24: a recv that times out and a recv that returns the heartbeat sentinel
\* leave the client's state as it is, hand nothing to the consumer and take
\* the thread back to the top of the read loop, from where a connected
\* client makes its next recv
C24_TimeoutAndPingChangeNothing ==
    /\ [][\A k \in Threads :
            (RecvReturns(k) /\ TimesOut(k))
                => (tpc'[k] = "l_loop" /\ ClientStateKept /\ stream' = stream)]_vars
    /\ [][\A k \in Threads :
            (RecvReturns(k) /\ PingAlone(k))
                => (tpc'[k] = "l_loop" /\ ClientStateKept)]_vars
    /\ [][\A k \in Threads :
            (tpc[k] = "l_loop" /\ crun /\ csock # 0 /\ tpc'[k] # "l_loop")
                => (tpc'[k] = "l_recv" /\ tsk'[k] = csock)]_vars

\* C24: the read loop has been through a timeout and a heartbeat, the client
\* is Connected with its socket open, nothing was delivered, and the thread
\* is in its next recv
C24_Witness ==
    /\ rseen = {"timeout", "ping"}
    /\ crun
    /\ csock # 0
    /\ sk[csock] = "connected"
    /\ delivered = 0
    /\ \E k \in Threads : tpc[k] = "l_recv" /\ tsk[k] = csock

\* a connect_to_server thread has just been started
AttemptStarted == \E k \in Threads : tpc[k] = "c_close"

\* C25: a periodic check that finds the client Disconnected starts a
\* connection attempt, every run of the check leaves the next one scheduled,
\* and so, as long as the client is not Connected, attempts are started
\* again and again
C25_RetriesUntilConnected ==
    /\ [][(PeriodicCheck /\ ~crun)
            => \E k \in Threads : tpc[k] = "idle" /\ tpc'[k] = "c_close"]_vars
    /\ [][PeriodicCheck => pdue']_vars
    /\ [](qpc = "live" => pdue)
    /\ []<>(crun \/ AttemptStarted)

\* C25: the client is Disconnected and two attempts are under way, so one of
\* them was started by a periodic check, and the next check is scheduled
C25_Witness ==
    /\ ~crun
    /\ qpc = "live"
    /\ pdue
    /\ Cardinality({k \in Threads : tpc[k] \in ConnectPcs}) >= 2


\* one recv returned exactly what one write had put on the connection
WholeWriteRead ==
    /\ wire # << >>
    /\ wire[1] = HbProbe \/ \E i \in 1..Len(wsent) : wire[1] = DumpsBytes(wsent[i])
    /\ Len(wire[1]) <= RecvBufSize
    /\ wire' = Tail(wire)

\* with the probe n bytes long: the probe and the sentinel are the same
\* literal, which is no JSON document and is the serialized form of no alarm
PingFacts(n) ==
    /\ HbProbe = PingSentinel
    /\ Len(HbProbe) = n
    /\ \A i \in 1..Len(HbProbe) : HbProbe[i] \in {"p", "i", "n", "g"}
    /\ ~LoadsBytes(HbProbe).ok
    /\ \A i \in 1..Len(wsent) : DumpsBytes(wsent[i]) # PingSentinel

\* a probe read on its own is dropped without a parse, and an alarm read on
\* its own is handed to handle_alarm and not dropped
PingSteps ==
    /\ (WholeWriteRead /\ wire[1] = HbProbe)
            => (wdisc' = wdisc + 1 /\ wgot' = wgot /\ wbad' = wbad)
    /\ (WholeWriteRead /\ wire[1] # HbProbe)
            => (wdisc' = wdisc /\ wbad' = wbad /\ Len(wgot') = Len(wgot) + 1
                /\ DumpsBytes(wgot'[Len(wgot')]) = wire[1])

\* C23 as stated: the probe and the sentinel are the same literal `ping`, 3
\* ASCII bytes long, not valid JSON and not the serialized form of any alarm,
\* so no alarm is dropped as a heartbeat and no heartbeat read on its own is
\* parsed
C23_PingThreeBytes == [](PingFacts(3)) /\ [][PingSteps]_vars

\* C23 amended: the probe and the sentinel are the same literal `ping`, 4
\* ASCII bytes long, not valid JSON and not the serialized form of any alarm,
\* so no alarm is dropped as a heartbeat and no heartbeat read on its own is
\* parsed
C23_PingFourBytes == [](PingFacts(4)) /\ [][PingSteps]_vars

\* C23: a probe read on its own has been dropped and an alarm read on its own
\* has been handed over, on the same connection
C23_Witness == wdisc = 1 /\ wbad = 0 /\ Len(wgot) = 1 /\ wgot = wsent /\ wire = << >>

\* C22: once the client has read everything the connection carried, an alarm
\* whose serialized form is longer than the receive buffer, sent with no probe
\* around it, has been handed to handle_alarm as one complete event
C22_LongAlarmDelivered ==
    (/\ Len(wsent) = 1
     /\ wnping = 0
     /\ wire = << >>
     /\ Len(DumpsBytes(wsent[1])) > RecvBufSize) => wgot = wsent

\* the decoded object has the ten fields of the alarm with the values of the
\* alarm
SameFields(d, e) ==
    /\ Len(d) = Len(e)
    /\ {d[m][1] : m \in 1..Len(d)} = {e[m][1] : m \in 1..Len(e)}
    /\ \A key \in Range(AlarmKeys) :
            /\ \E m \in 1..Len(e) : e[m][1] = key
            /\ Field(d, key) = Field(e, key)

\* C21: json.loads of the bytes json.dumps made of an alarm the server built
\* is an object equal to the alarm on every field, so a recv that returns the
\* bytes of one alarm hands handle_alarm an event equal to that alarm, and every
\* event handed to handle_alarm equals an alarm that was sent
C21_RoundTripIdentity ==
    /\ [](\A i \in 1..Len(wsent) :
            LET decoded == LoadsBytes(DumpsBytes(wsent[i]))
            IN  decoded.ok /\ SameFields(decoded.obj, wsent[i]))
    /\ [](\A i \in 1..Len(wgot) : \E h \in 1..Len(wsent) : SameFields(wgot[i], wsent[h]))
    /\ [][(WholeWriteRead /\ wire[1] # HbProbe)
            => \E h \in 1..Len(wsent) :
                  /\ wire[1] = DumpsBytes(wsent[h])
                  /\ wgot' = Append(wgot, wsent[h])]_vars

K_message == AlarmKeys[2]

K_icon == AlarmKeys[8]

\* C21: an alarm whose message has a quote and a character outside ASCII has
\* been sent, read and handed over equal to what was sent
C21_Witness ==
    /\ Len(wgot) = 1
    /\ wgot = wsent
    /\ \E i \in 1..Len(Field(wgot[1], K_message)) : Field(wgot[1], K_message)[i] = "\""
    /\ \E i \in 1..Len(Field(wgot[1], K_message)) : Field(wgot[1], K_message)[i] = NonAscii
    /\ Field(wgot[1], K_icon) = DefaultIcon

\* the positions of a thread inside listen_for_alarms
ListenPcs == {"l_loop", "l_recv", "l_exc1", "l_exc2"}

\* C31: at most one thread is inside connect_to_server and at most one inside
\* listen_for_alarms at any time
C31_OneAttemptOneReadLoop ==
    /\ Cardinality({k \in Threads : tpc[k] \in ConnectPcs}) <= 1
    /\ Cardinality({k \in Threads : tpc[k] \in ListenPcs}) <= 1

\* C32: whenever self.running is true, self.socket is the open socket of an
\* established connection, and a read loop that is inside recv reads from it
C32_ConnectedSocketKept ==
    crun =>
        /\ csock # 0
        /\ sk[csock] \in {"connected", "eof"}
        /\ \A k \in Threads : tpc[k] = "l_recv" => tsk[k] = csock

\* the heartbeat thread of session s is in its loop: between two probes or
\* writing one
HbProbing(s) == hpc[s] \in {"wait", "sending"}

\* C33: while the server is running, every accepted session whose socket is
\* open and whose heartbeat thread is in its probe loop is in the registry
\* (the session broadcast_alarm has just removed and is about to close is left
\* aside)
C33_ProbedSessionsRegistered ==
    running =>
        \A s \in Sessions :
            (/\ sock[s] = "open"
             /\ HbProbing(s)
             /\ ~(mpc = "b_close" /\ failed[ci] = s)) => Contains(clients, s)

\* the heartbeat thread of session s has ended, by its return or by the
\* exception that left its finally block
HbEnded(s) == hpc[s] \in {"done", "crashed"}

\* C34: a session that has left the registry, whose heartbeat thread has ended
\* and which no broadcast_alarm or stop_server in progress still holds, has
\* its socket closed: nothing is left that could close it later
C34_LeftSessionsClosed ==
    \A s \in Sessions :
        (HbEnded(s) /\ ~Contains(clients, s) /\ mpc = "idle") => sock[s] = "closed"

\* what authenticate_admin reads from the entries passes its checks
EntriesAccepted ==
    /\ StripName(admin_name_entry) # ""
    /\ StripSeq(admin_pass_entry) # << >>
    /\ VerifyPassword(StripSeq(admin_pass_entry),
                      [str |-> TRUE, text |-> admin_password.text]) = "True"

\* C36: is_authenticated is true exactly when current_admin is set; it becomes
\* true only in a step in which the name read from the entry is not empty and
\* the password read verifies against the in-memory credential, and
\* current_admin is then that name; a step taken while the entries do not
\* pass leaves is_authenticated and current_admin as they are
C36_LoginOnlyByVerifiedPassword ==
    /\ [](is_authenticated <=> current_admin # "None")
    /\ [][(~is_authenticated /\ is_authenticated')
            => (EntriesAccepted /\ current_admin' = StripName(admin_name_entry))]_vars
    /\ [][(~is_authenticated /\ ~EntriesAccepted)
            => UNCHANGED <<is_authenticated, current_admin>>]_vars

\* C36: the operator has logged in with blanks typed around the name and the
\* password, after the credential was changed
C36_Witness ==
    /\ is_authenticated
    /\ current_admin = "bob"
    /\ admin_name_entry = " bob "
    /\ admin_pass_entry = <<" ", "0">>
    /\ admin_password.text # InitialCredential

\* what change_password reads from the dialog's entries passes its three checks
DialogAccepted ==
    /\ dialog.open
    /\ VerifyPassword(StripSeq(dialog.current),
                      [str |-> TRUE, text |-> admin_password.text]) = "True"
    /\ Len(StripSeq(dialog.new)) >= MinNewLen
    /\ StripSeq(dialog.new) = StripSeq(dialog.confirm)

\* C37: the dialog is open only while an operator is authenticated, and the
\* in-memory credential or the credential file changes only in a step in
\* which the operator is authenticated, the current password typed verifies,
\* the new password has at least 8 characters and the confirmation equals it;
\* in a step in which one of these fails both are left as they are
C37_ChangeOnlyAfterChecks ==
    /\ [](dialog.open => is_authenticated)
    /\ [][(admin_password' # admin_password \/ pwfile' # pwfile)
            => (is_authenticated /\ DialogAccepted)]_vars

\* C37: the password has been changed to one of 8 characters through the
\* dialog, in memory and in the file
C37_Witness ==
    /\ ~dialog.open
    /\ admin_password.text # InitialCredential
    /\ pwfile.text = admin_password.text
    /\ VerifyPassword(Rep(":", MinNewLen),
                      [str |-> TRUE, text |-> admin_password.text]) = "True"

\* C38: a broadcast_alarm call made while the server is not running or the
\* registry is empty is refused: it changes nothing of the server, the
\* registry, the sessions and the record of writes, and until its message box
\* is dismissed the main thread writes to no session and removes none
C38_RefusedBroadcastChangesNothing ==
    /\ [][(BcastStart /\ (~running \/ clients = << >>))
            => (/\ mpc' = "b_refused"
                /\ UNCHANGED <<running, lsock, clients, sock, hpc, pending, written, sent,
                               failed, msg, outs, nser>>)]_vars
    /\ [][mpc = "b_refused"
            => (/\ mpc' \in {"b_refused", "idle"}
                /\ UNCHANGED <<written, sent, failed, msg, outs, nser>>
                /\ \A s \in Sessions : Contains(clients, s) /\ ~Contains(clients', s)
                                          => hpc[s] = "rm")]_vars

\* C38: a call was refused because the registry of the running server is empty
C38_Witness == mpc = "b_refused" /\ running /\ clients = << >>

\* C35: a call of broadcast_alarm made by an alarm button happens only after
\* check_admin_auth has passed, and the operator stays authenticated from the
\* check through the confirmation box to the last write, so the admin field of
\* every alarm written is the name the operator logged in under
C35_DispatchOnlyAuthenticated ==
    /\ (mpc = "confirm" \/ InBroadcast) => is_authenticated
    /\ InBroadcast => /\ AdminOf(msg) = current_admin
                      /\ outs \subseteq {msg}

\* C35 as stated: alarms sent by the alarm buttons are dispatched only while
\* an operator is authenticated, and none of them carries the sentinel
\* "Unknown" in its admin field
C35_NoSentinelFromOperator ==
    /\ (mpc = "confirm" \/ InBroadcast) => is_authenticated
    /\ \A m \in outs : AdminOf(m) # "Unknown"

====
